---- MODULE Spec2Model ----
(***************************************************************************)
(* Conditional auto-order engine of the trading assistant: one websocket   *)
(* session (Client), its auto-order registry, the monitor workers, the     *)
(* command handlers and the hub's unregister path.                         *)
(* Times are Unix seconds counted from the start of the session.           *)
(***************************************************************************)
EXTENDS Integers, Sequences, FiniteSets, TLC

\* ------------------------------------------------------------------ bounds
MaxOrders == 2
MaxTasks == 2
MaxAdvances == 2
MaxPlaces == 2
MaxPanics == 1
MaxPollers == 1
MaxPollTasks == 1
\* Capacity of the outbound channel in the model; the program's is 256.
SendCap == 2
MaxPings == 1
MaxHubSends == 1

\* ------------------------------------------------------- program constants
IdModulus == 100000
MinCheckDelay == 5
TimerCap == 2592000
MaxValidity == 2592000
\* time.Date(9999, January, 1) lies beyond every instant the model reaches;
\* the largest integer TLC represents stands for it.
ForeverAt == 2147483647

VARIABLES now, advances, orders, autoOrders, cancellation, cleanupOnce,
          closes, signals, worker, placed, emitted, pollers, tasks, readPump,
          sendClosed, crashed, gateway, hub, send, wire, writePump, message

vars == <<now, advances, orders, autoOrders, cancellation, cleanupOnce,
          closes, signals, worker, placed, emitted, pollers, tasks, readPump,
          sendClosed, crashed, gateway, hub, send, wire, writePump, message>>

\* --------------------------------------------------------- partial maps
MapPut(f, key, val) ==
  [x \in (DOMAIN f) \cup {key} |-> IF x = key THEN val ELSE f[x]]

\* A delete that leaves the map as it is.
MapKeep(f, key) == f

MapDel(f, key) ==
  [x \in (DOMAIN f) \ {key} |-> f[x]]


\* --------------------------------------------------------------- inputs
\* A validity argument as time.ParseDuration reads it: a sign, a count and
\* a unit suffix; "forever" and unparseable text are separate shapes.
Validity(kind, neg, n, unit) == [kind |-> kind, neg |-> neg, n |-> n, unit |-> unit]

VForever == Validity("forever", FALSE, 0, "")
VBad     == Validity("text", FALSE, 0, "")
VDur(n, unit) == Validity("dur", FALSE, n, unit)

\* Seconds per unit, for the units of time.ParseDuration that are whole
\* seconds; 0 for every other unit.
UnitSeconds(unit) ==
  CASE unit = "s" -> 1
    [] unit = "m" -> 60
    [] unit = "h" -> 3600
    [] OTHER -> 0

\* Units per second, for the sub-second units of time.ParseDuration; 0 for
\* every other unit.
UnitsPerSecond(unit) ==
  CASE unit = "ms" -> 1000
    [] unit \in {"us", "µs", "μs"} -> 1000000
    [] unit = "ns" -> 1000000000
    [] OTHER -> 0

\* The largest count of a unit that fits a time.Duration (int64 nanoseconds);
\* counts of seconds and smaller units that TLC represents all fit.
MaxCount(unit) ==
  CASE unit = "h" -> 2562047
    [] unit = "m" -> 153722867
    [] OTHER -> 2147483647

\* Durations are kept in whole seconds: a fraction of a second counts as the
\* next second, and a duration beyond the largest integer TLC represents is
\* kept as that integer.
Seconds(n, unit) ==
  IF UnitSeconds(unit) > 0
  THEN IF n > 2147483647 \div UnitSeconds(unit) THEN 2147483647
       ELSE n * UnitSeconds(unit)
  ELSE (n \div UnitsPerSecond(unit)) + (IF n % UnitsPerSecond(unit) = 0 THEN 0 ELSE 1)

\* time.ParseDuration of a text of the shape sign-count-unit: [ok, d].  The
\* text "0" needs no unit.
ParseDuration(v) ==
  IF v.kind # "dur" THEN [ok |-> FALSE, d |-> 0]
  ELSE IF v.unit = "" /\ v.n = 0 THEN [ok |-> TRUE, d |-> 0]
  ELSE IF UnitSeconds(v.unit) = 0 /\ UnitsPerSecond(v.unit) = 0 THEN [ok |-> FALSE, d |-> 0]
  ELSE IF v.n > MaxCount(v.unit) THEN [ok |-> FALSE, d |-> 0]
  ELSE IF v.neg
  THEN [ok |-> TRUE,
        d |-> IF UnitSeconds(v.unit) > 0 THEN 0 - Seconds(v.n, v.unit)
              ELSE 0 - (v.n \div UnitsPerSecond(v.unit))]
  ELSE [ok |-> TRUE, d |-> Seconds(v.n, v.unit)]

\* strings.ToLower of a unit suffix.  The micro sign (µ, U+00B5) is a lower
\* case letter and stays; the Greek capital Mu (U+039C) becomes the small mu
\* (μ, U+03BC); time.ParseDuration takes both "µs" and "μs".
ToLowerUnit(unit) ==
  CASE unit = "S" -> "s"
    [] unit = "M" -> "m"
    [] unit = "H" -> "h"
    [] unit = "D" -> "d"
    [] unit \in {"MS", "Ms", "mS"} -> "ms"
    [] unit \in {"US", "Us", "uS"} -> "us"
    [] unit \in {"NS", "Ns", "nS"} -> "ns"
    [] unit = "µS" -> "µs"
    [] unit \in {"μS", "Μs", "ΜS"} -> "μs"
    [] OTHER -> unit

\* strings.ToLower of a validity or interval text; the kind "forever" stands
\* for every spelling that lower-cases to "forever".
ToLower(v) == [v EXCEPT !.unit = ToLowerUnit(v.unit)]

\* parseValidity: [ok, at]
parseValidity(v, t) ==
  IF v.kind = "forever" THEN [ok |-> TRUE, at |-> ForeverAt]
  ELSE IF ~ParseDuration(v).ok THEN [ok |-> FALSE, at |-> 0]
  ELSE IF ParseDuration(v).d > MaxValidity THEN [ok |-> FALSE, at |-> 0]
  ELSE [ok |-> TRUE, at |-> t + ParseDuration(v).d]

\* The interval texts the dispatcher lets through.
I5m == VDur(5, "m")
I15m == VDur(15, "m")
I1h == VDur(1, "h")

\* ParseIntervalDuration in seconds: the three names, in any case, then
\* time.ParseDuration of the text as given; [ok, d] with d = 0 on an error.
ParseIntervalDuration(interval) ==
  CASE ToLower(interval) = I5m -> [ok |-> TRUE, d |-> 300]
    [] ToLower(interval) = I15m -> [ok |-> TRUE, d |-> 900]
    [] ToLower(interval) = I1h -> [ok |-> TRUE, d |-> 3600]
    [] OTHER -> ParseDuration(interval)

\* checkDelay of a worker: the interval, with its error dropped, clamped to
\* the five-second floor.
checkDelay(interval) ==
  IF ParseIntervalDuration(interval).d < MinCheckDelay THEN MinCheckDelay
  ELSE ParseIntervalDuration(interval).d

\* An indicator or product name is the sequence of its letters.
\* strings.ToUpper of a name: every letter becomes unicode.ToUpper of it.
\* Two small letters outside a..z have their capital in A..Z, the dotless i
\* (U+0131, capital I) and the long s (U+017F, capital S); the capital of any
\* other small letter outside a..z is outside A..Z (é has É, the micro sign
\* has the Greek capital Mu).  What is no small letter stays.  The two
\* letters are written by their code points.
ToUpper(name) ==
  LET LowerCase == <<"a", "b", "c", "d", "e", "f", "g", "h", "i", "j", "k", "l", "m",
                     "n", "o", "p", "q", "r", "s", "t", "u", "v", "w", "x", "y", "z",
                     "U+0131", "U+017F", "é", "µ">>
      UpperCase == <<"A", "B", "C", "D", "E", "F", "G", "H", "I", "J", "K", "L", "M",
                     "N", "O", "P", "Q", "R", "S", "T", "U", "V", "W", "X", "Y", "Z",
                     "I", "S", "É", "Μ">>
  IN [i \in 1..Len(name) |->
        IF \E j \in 1..Len(LowerCase) : LowerCase[j] = name[i]
        THEN UpperCase[CHOOSE j \in 1..Len(LowerCase) : LowerCase[j] = name[i]]
        ELSE name[i]]

RSI == <<"R", "S", "I">>
MACD == <<"M", "A", "C", "D">>

\* The product types the dispatcher lets through, line 940.
MIS == <<"M", "I", "S">>
NRML == <<"N", "R", "M", "L">>
CNC == <<"C", "N", "C">>

Products == {MIS, NRML, CNC}

\* A period as strconv.Atoi reads its digits; BadPeriod stands for a digit
\* string that is out of range.
BadPeriod == 0 - 1

\* A predicate, described by what EvaluatePineCondition looks at:
\*   funcs     function-style uses <<name, period>>, in the order of the
\*             text: (?i)(sma|ema|rsi)\s*\(\s*close\s*,\s*(\d+)\s*\)
\*   refs      period-suffix tokens <<name, period>>, in the order of the
\*             text: ([A-Za-z]+)(\d+)
\*   macd      the text, upper-cased, contains MACD
\*   noPeriod  the text matches (RSI|EMA|SMA)\s
\*   parses    govaluate accepts the text
\*   evaluates the expression evaluates on the parameters
\*   boolean   the expression yields a bool
Pred(name, funcs, refs, macd, noPeriod, parses, evaluates, boolean) ==
  [name |-> name, funcs |-> funcs, refs |-> refs, macd |-> macd,
   noPeriod |-> noPeriod, parses |-> parses, evaluates |-> evaluates,
   boolean |-> boolean]

\* A predicate of period-suffix tokens only, which evaluates once it parses.
Predicate(name, refs, noPeriod, parses, boolean) ==
  Pred(name, << >>, refs, FALSE, noPeriod, parses, TRUE, boolean)

PredRsi      == Predicate("RSI14 < 30", <<<<RSI, 14>>>>, FALSE, TRUE, TRUE)
PredNoPeriod == Predicate("RSI < 30", << >>, TRUE, TRUE, TRUE)
PredSyntax   == Predicate("RSI14 <", <<<<RSI, 14>>>>, FALSE, FALSE, TRUE)
PredNonBool  == Predicate("RSI14 + 1", <<<<RSI, 14>>>>, FALSE, TRUE, FALSE)
PredLower    == Predicate("rsi14 < 30", <<<<<<"r", "s", "i">>, 14>>>>, FALSE, TRUE, TRUE)
PredUnknown  == Predicate("FOO5 > RSI14", <<<<<<"F", "O", "O">>, 5>>, <<RSI, 14>>>>,
                          FALSE, TRUE, TRUE)
PredMacd     == Pred("MACD > 0", << >>, << >>, TRUE, FALSE, TRUE, TRUE, TRUE)
PredFunction == Pred("rsi(close, 14) < 30", <<<<<<"r", "s", "i">>, 14>>>>, << >>,
                     FALSE, FALSE, TRUE, TRUE, TRUE)
PredUnbound  == Pred("RSI14 < limit", << >>, <<<<RSI, 14>>>>, FALSE, FALSE, TRUE,
                     FALSE, TRUE)

Predicates == {PredRsi, PredNoPeriod, PredSyntax, PredNonBool, PredLower,
               PredUnknown, PredMacd, PredFunction, PredUnbound}

SupportedIndicators ==
  {RSI, <<"E", "M", "A">>, <<"S", "M", "A">>, MACD, <<"R", "O", "C">>, <<"L", "R", "S">>}

\* What one history fetch returns: a transport/API failure, or n candles on
\* which the comparison of the predicate comes out as truth.
History(fetchOK, n, truth) == [fetchOK |-> fetchOK, n |-> n, truth |-> truth]

Histories == {History(ok, n, tr) : ok \in BOOLEAN, n \in {0, 10, 50}, tr \in BOOLEAN}

\* CalculateIndicatorValue: "" on success, else the error class.
CalculateIndicatorValue(indicatorName, period, n) ==
  IF n < period + 1 THEN "InsufficientData"
  ELSE IF ToUpper(indicatorName) \notin SupportedIndicators THEN "UnsupportedIndicator"
  ELSE ""

\* What FetchOpenAlgoHistory handed to EvaluatePineCondition: an error, an
\* empty candle array, or candles.
Fetched(hist) ==
  IF ~hist.fetchOK THEN "failed"
  ELSE IF hist.n = 0 THEN "empty"
  ELSE "data"

\* The loop over the function-style uses, lines 455-480: the error of the
\* first use whose calculation fails, "" when there is none; a use whose
\* period does not convert is skipped.
RECURSIVE FunctionStyleError(_, _)
FunctionStyleError(funcs, n) ==
  IF funcs = << >> THEN ""
  ELSE LET match == Head(funcs)
           calcErr == CalculateIndicatorValue(ToUpper(match[1]), match[2], n)
       IN IF match[2] = BadPeriod THEN FunctionStyleError(Tail(funcs), n)
          ELSE IF calcErr # "" THEN calcErr
          ELSE FunctionStyleError(Tail(funcs), n)

\* The loop over the period-suffix tokens, lines 482-501: the error of the
\* first token whose period does not convert or whose calculation fails.
RECURSIVE WithPeriodError(_, _)
WithPeriodError(refs, n) ==
  IF refs = << >> THEN ""
  ELSE LET match == Head(refs)
           calcErr == CalculateIndicatorValue(match[1], match[2], n)
       IN IF match[2] = BadPeriod THEN "InvalidPeriod"
          ELSE IF calcErr # "" THEN calcErr
          ELSE WithPeriodError(Tail(refs), n)

\* The checks of EvaluatePineCondition after the fetch, in the order of the
\* code: [err, met].
EvaluateOn(pred, hist) ==
  IF FunctionStyleError(pred.funcs, hist.n) # ""
  THEN [err |-> FunctionStyleError(pred.funcs, hist.n), met |-> FALSE]
  ELSE IF WithPeriodError(pred.refs, hist.n) # ""
  THEN [err |-> WithPeriodError(pred.refs, hist.n), met |-> FALSE]
  ELSE IF pred.macd /\ CalculateIndicatorValue(MACD, 12, hist.n) # ""
  THEN [err |-> CalculateIndicatorValue(MACD, 12, hist.n), met |-> FALSE]
  ELSE IF pred.noPeriod THEN [err |-> "MissingPeriod", met |-> FALSE]
  ELSE IF ~pred.parses THEN [err |-> "SyntaxError", met |-> FALSE]
  ELSE IF ~pred.evaluates THEN [err |-> "EvaluationError", met |-> FALSE]
  ELSE IF ~pred.boolean THEN [err |-> "NonBooleanPredicate", met |-> FALSE]
  ELSE [err |-> "", met |-> hist.truth]

\* EvaluatePineCondition going on to the evaluation whatever the fetch
\* returned.
EvaluatePineConditionFetchUnchecked(pred, hist) ==
  IF pred.noPeriod THEN [err |-> "MissingPeriod", met |-> FALSE]
  ELSE IF ~pred.parses THEN [err |-> "SyntaxError", met |-> FALSE]
  ELSE IF ~pred.boolean THEN [err |-> "NonBooleanPredicate", met |-> FALSE]
  ELSE [err |-> "", met |-> hist.truth]

\* EvaluatePineCondition: [err, met]; err = "" on success.
EvaluatePineCondition(pred, hist) ==
  IF ~hist.fetchOK THEN [err |-> "FetchFailed", met |-> FALSE]
  ELSE IF hist.n = 0 THEN [err |-> "NoHistory", met |-> FALSE]
  ELSE EvaluateOn(pred, hist)

\* -------------------------------------------------------------- gateway
\* An HTTP response of the broker API, described by what the four gateway
\* operations look at: the status code, whether the Content-Type contains
\* "html", and the body:
\*   "success"  a JSON envelope with status "success"
\*   "error"    a JSON envelope with a non-empty error field
\*   "message"  a JSON envelope with a non-empty message field and no error
\*   "failure"  a JSON envelope with another status and neither field
\*   "page"     text that is not JSON
Response(code, html, body) == [code |-> code, html |-> html, body |-> body]

Responses ==
  {Response(code, html, body) :
     code \in {200, 400, 404, 500}, html \in BOOLEAN,
     body \in {"success", "error", "message", "failure", "page"}}


\* json.Unmarshal of the body succeeds
IsJSON(body) == body # "page"

\* FetchOpenAlgoQuote: the error it returns for a response; "" for none.
FetchOpenAlgoQuote(resp) ==
  IF resp.code # 200
  THEN IF IsJSON(resp.body) /\ resp.body = "error" THEN "ApiError"
       ELSE IF resp.html THEN "HtmlPage"
       ELSE "ApiFailure"
  ELSE IF ~IsJSON(resp.body) THEN "Decode"
  ELSE IF resp.body # "success" THEN "EnvelopeError"
  ELSE ""

\* PlaceOpenAlgoSmartOrder
PlaceOpenAlgoSmartOrder(resp) ==
  IF resp.code # 200
  THEN IF IsJSON(resp.body) /\ resp.body \in {"error", "message"}
       THEN IF resp.code = 400 THEN "BadRequest" ELSE "ApiError"
       ELSE IF resp.html THEN "HtmlPage"
       ELSE "ApiFailure"
  ELSE IF ~IsJSON(resp.body) THEN "Decode"
  ELSE IF resp.body # "success" THEN "EnvelopeError"
  ELSE ""

\* FetchOrderStatus
FetchOrderStatus(resp) ==
  IF resp.code # 200
  THEN IF IsJSON(resp.body) /\ resp.body = "error" THEN "ApiError"
       ELSE "ApiFailure"
  ELSE IF ~IsJSON(resp.body) THEN "Decode"
  ELSE IF resp.body # "success" THEN "EnvelopeError"
  ELSE ""

\* FetchOpenAlgoHistory
FetchOpenAlgoHistory(resp) ==
  IF resp.code # 200
  THEN IF IsJSON(resp.body) /\ resp.body = "error" THEN "ApiError"
       ELSE IF resp.html
       THEN IF resp.code = 404 THEN "EndpointNotFound" ELSE "HtmlPage"
       ELSE "ApiFailure"
  ELSE IF ~IsJSON(resp.body) THEN "Decode"
  ELSE IF resp.body # "success" THEN "EnvelopeError"
  ELSE ""

\* One call of a gateway operation with the response the broker gave.
GatewayFrame ==
  UNCHANGED <<now, advances, orders, autoOrders, cancellation, cleanupOnce,
              closes, signals, worker, placed, emitted, pollers, tasks,
              readPump, sendClosed, crashed, hub,
              send, wire, writePump, message>>

CallQuote ==
  /\ \E resp \in Responses :
       gateway' = [op |-> "quote", resp |-> resp, err |-> FetchOpenAlgoQuote(resp)]
  /\ GatewayFrame

CallPlace ==
  /\ \E resp \in Responses :
       gateway' = [op |-> "place", resp |-> resp, err |-> PlaceOpenAlgoSmartOrder(resp)]
  /\ GatewayFrame

CallStatus ==
  /\ \E resp \in Responses :
       gateway' = [op |-> "status", resp |-> resp, err |-> FetchOrderStatus(resp)]
  /\ GatewayFrame

CallHistory ==
  /\ \E resp \in Responses :
       gateway' = [op |-> "history", resp |-> resp, err |-> FetchOpenAlgoHistory(resp)]
  /\ GatewayFrame

\* ------------------------------------------------------------- registry
\* The mutex-guarded part of a Client: both maps, and for every record and
\* channel ever created its CleanupOnce latch and the number of close calls.
Registry ==
  [autoOrders |-> autoOrders, cancellation |-> cancellation,
   cleanupOnce |-> cleanupOnce, closes |-> closes]

SetRegistry(reg) ==
  /\ autoOrders' = reg.autoOrders
  /\ cancellation' = reg.cancellation
  /\ cleanupOnce' = reg.cleanupOnce
  /\ closes' = reg.closes

\* removeAutoOrder with the close of the channel left out.
removeAutoOrderNoClose(reg, orderID) ==
  IF orderID \notin DOMAIN reg.autoOrders THEN reg
  ELSE LET k == reg.autoOrders[orderID]
       IN IF reg.cleanupOnce[k] THEN reg
          ELSE [autoOrders |-> MapDel(reg.autoOrders, orderID),
                cancellation |-> MapDel(reg.cancellation, orderID),
                cleanupOnce |-> [reg.cleanupOnce EXCEPT ![k] = TRUE],
                closes |-> reg.closes]

\* removeAutoOrder: one critical section under orderMux.
removeAutoOrder(reg, orderID) ==
  IF orderID \notin DOMAIN reg.autoOrders THEN reg
  ELSE LET k == reg.autoOrders[orderID]
       IN IF reg.cleanupOnce[k] THEN reg
          ELSE LET hasCh == orderID \in DOMAIN reg.cancellation
                   ch == reg.cancellation[orderID]
               IN [autoOrders |-> MapDel(reg.autoOrders, orderID),
                   cancellation |-> MapDel(reg.cancellation, orderID),
                   cleanupOnce |-> [reg.cleanupOnce EXCEPT ![k] = TRUE],
                   closes |-> IF hasCh /\ reg.closes[ch] = 0
                              THEN [reg.closes EXCEPT ![ch] = @ + 1]
                              ELSE reg.closes]

\* orderID := fmt.Sprintf("SO-%d", time.Now().Unix()%100000)
NewOrderID(t) == t % IdModulus

Kinds == {"EXPIRED", "CANCELLED", "ALREADY_EXPIRED", "CRASHED", "RESTART",
          "NO_RESTART", "EXECUTED", "FAILED", "ORDER_FAILURE", "UNRESOLVED",
          "MAIL_CRASHED", "MAIL_EXECUTED", "MAIL_FAILED", "MAIL_ORDER_FAILURE",
          "MAIL_UNRESOLVED"}

NoEmits == [x \in Kinds |-> 0]

\* ----------------------------------------------------- outbound channel
\* c.send, a buffered channel (NewClient, make(chan []byte, 256)), and the
\* frames WritePump has written to the connection.  writePump is
\* "unobserved" in the specifications that leave the transport out: there
\* the writer keeps up, no send blocks and the frames are not recorded.
Observed == writePump # "unobserved"

\* One frame: the task that sent it, the kind, and its number among the
\* frames that task has produced.
Frame(from, of, kind, n) == [from |-> from, of |-> of, kind |-> kind, n |-> n]

\* A send of n frames does not block: there is room in the buffer, or the
\* channel is closed and the send panics at once.
CanSend(n) == ~Observed \/ sendClosed \/ Len(send) + n <= SendCap

\* A send that puts its frames at the head of the buffer.
SendsToFront(frames) ==
  /\ CanSend(Len(frames))
  /\ send' = IF Observed /\ ~sendClosed THEN frames \o send ELSE send

\* c.send <- frame, for each of frames in turn.  On the closed channel the
\* send panics and nothing is enqueued; what the panic does to the sender is
\* up to the caller.
Sends(frames) ==
  /\ CanSend(Len(frames))
  /\ send' = IF Observed /\ ~sendClosed THEN send \o frames ELSE send

\* The kinds that are frames, in the order one call site sends them; the
\* last two are sent by pollers, the others by the worker.
FrameOrder == <<"ALREADY_EXPIRED", "EXPIRED", "CANCELLED", "CRASHED", "RESTART",
                "NO_RESTART", "EXECUTED", "FAILED", "ORDER_FAILURE", "UNRESOLVED">>

\* The kinds that are frames; the others are e-mails.
FrameKinds == {FrameOrder[i] : i \in 1..Len(FrameOrder)}

Sender(kind) == IF kind \in {"ORDER_FAILURE", "UNRESOLVED"} THEN "poller" ELSE "worker"

\* Frames the tasks of record k that send kind have produced so far.
Produced(k, kind) ==
  LET RECURSIVE Sum(_)
      Sum(i) == IF i = 0 THEN 0
                ELSE (IF Sender(FrameOrder[i]) = Sender(kind)
                      THEN emitted[k][FrameOrder[i]] ELSE 0) + Sum(i - 1)
  IN Sum(Len(FrameOrder))

FramesOf(k, ks) ==
  LET kinds == SelectSeq(FrameOrder, LAMBDA x : x \in ks)
  IN [i \in 1..Len(kinds) |->
        Frame(Sender(kinds[i]), k, kinds[i], Produced(k, kinds[i]) + i)]

\* sendSystemMessage as pollOrderStatus calls it, without the deferred
\* recover of lines 742-746: the poller has no recover of its own, so the
\* panic of the send on the closed channel ends the process.
EmitUnrecovered(k, ks) ==
  LET panics == sendClosed /\ FramesOf(k, ks) # << >>
      recovered == panics /\ \A x \in ks : Sender(x) # "poller"
  IN /\ Sends(FramesOf(k, ks))
     /\ emitted' = [emitted EXCEPT ![k] = [x \in Kinds |-> IF x \in ks THEN @[x] + 1 ELSE @[x]]]
     /\ crashed' = (crashed \/ (panics /\ ~recovered))

\* sendSystemMessage (741-757) / sendError (533-549) called by the tasks of
\* record k, once per kind in ks.  The send of line 756 (545) panics when
\* the outbound channel is closed; the deferred function of lines 742-746
\* (534-538) calls recover(), which ends the panic inside the call, so the
\* call returns and the process goes on.  The MAIL_ kinds are the
\* emailService.SendEmail calls, which send nothing on the channel.
Emit(k, ks) ==
  LET panics == sendClosed /\ FramesOf(k, ks) # << >>
      recovered == panics
  IN /\ Sends(FramesOf(k, ks))
     /\ emitted' = [emitted EXCEPT ![k] = [x \in Kinds |-> IF x \in ks THEN @[x] + 1 ELSE @[x]]]
     /\ crashed' = (crashed \/ (panics /\ ~recovered))

NewWorker ==
  [pc |-> "start", cancelChan |-> 0, timerAt |-> 0, nextTick |-> 0,
   fetch |-> "", err |-> "", isMet |-> FALSE, panicked |-> FALSE, exit |-> "",
   panics |-> 0]

\* A worker whose function has returned: only the way it ended is kept.
Finished(w, exit) == [NewWorker EXCEPT !.pc = "done", !.exit = exit, !.panics = w.panics]

\* A start that registers the record without its cancel channel.
StartAutoOrderMonitoringNoSignal(input, expiresAt) ==
  LET orderID == NewOrderID(now)
      k == Len(orders) + 1
      order == [id |-> orderID, action |-> input.action, interval |-> input.interval,
                cond |-> input.cond, status |-> "running", createdAt |-> now,
                expiresAt |-> expiresAt]
  IN /\ orders' = Append(orders, order)
     /\ autoOrders' = MapPut(autoOrders, orderID, k)
     /\ cancellation' = cancellation
     /\ cleanupOnce' = Append(cleanupOnce, FALSE)
     /\ closes' = Append(closes, 0)
     /\ signals' = Append(signals, << >>)
     /\ worker' = Append(worker, NewWorker)
     /\ placed' = Append(placed, 0)
     /\ emitted' = Append(emitted, NoEmits)

\* StartAutoOrderMonitoring, called by command task h.
StartAutoOrderMonitoring(input, expiresAt) ==
  LET orderID == NewOrderID(now)
      k == Len(orders) + 1
      order == [id |-> orderID, action |-> input.action, interval |-> input.interval,
                cond |-> input.cond, status |-> "running", createdAt |-> now,
                expiresAt |-> expiresAt]
  IN /\ orders' = Append(orders, order)
     /\ autoOrders' = MapPut(autoOrders, orderID, k)
     /\ cancellation' = MapPut(cancellation, orderID, k)
     /\ cleanupOnce' = Append(cleanupOnce, FALSE)
     /\ closes' = Append(closes, 0)
     /\ signals' = Append(signals, << >>)
     /\ worker' = Append(worker, NewWorker)
     /\ placed' = Append(placed, 0)
     /\ emitted' = Append(emitted, NoEmits)

\* An unrecovered panic ends the process: nothing runs after it.
Alive == ~crashed

\* --------------------------------------------------------------- worker
Workers == 1..Len(orders)

\* monitorAndPlaceOrder, lines 567-577: the lookup of the cancel channel
\* under orderMux.
WorkerStart(k) ==
  /\ Alive
  /\ k \in Workers
  /\ worker[k].pc = "start"
  /\ LET id == orders[k].id
     IN IF id \notin DOMAIN cancellation
        THEN worker' = [worker EXCEPT ![k] = Finished(worker[k], "noChannel")]
        ELSE worker' = [worker EXCEPT ![k].pc = "timers", ![k].exit = "",
                                      ![k].cancelChan = cancellation[id]]
  /\ UNCHANGED <<now, advances, orders, autoOrders, cancellation, cleanupOnce,
                 closes, signals, placed, emitted, pollers, tasks, readPump,
                 sendClosed, crashed, gateway, hub,
                 send, wire, writePump, message>>

\* Lines 579-596: the ticker is created and the clock is read for the
\* expiry timer; for a monitor that has not expired by then the timer is
\* created and the remaining cleanup is deferred.
WorkerTimers(k) ==
  /\ Alive
  /\ k \in Workers
  /\ worker[k].pc = "timers"
  /\ LET expiryDuration == orders[k].expiresAt - now
     IN IF expiryDuration <= 0
        THEN worker' = [worker EXCEPT ![k].pc = "alreadyExpired"]
        ELSE worker' = [worker EXCEPT ![k].pc = "select",
                                      ![k].nextTick = now + checkDelay(orders[k].interval),
                                      ![k].timerAt = now + (IF expiryDuration < TimerCap THEN expiryDuration ELSE TimerCap)]
  /\ UNCHANGED <<now, advances, orders, autoOrders, cancellation, cleanupOnce,
                 closes, signals, placed, emitted, pollers, tasks, readPump,
                 sendClosed, crashed, gateway, hub,
                 send, wire, writePump, message>>

\* Lines 588-589: the notice for a monitor found expired at the start, and
\* the return, which runs no removeAutoOrder (the cleanup of lines 597-600
\* is not deferred yet).
WorkerAlreadyExpired(k) ==
  /\ Alive
  /\ k \in Workers
  /\ worker[k].pc = "alreadyExpired"
  /\ worker' = [worker EXCEPT ![k] = Finished(worker[k], "alreadyExpired")]
  /\ Emit(k, {"ALREADY_EXPIRED"})
  /\ UNCHANGED <<now, advances, orders, autoOrders, cancellation, cleanupOnce,
                 closes, signals, placed, pollers, tasks, readPump, sendClosed,
                 gateway, hub,
                 wire, writePump, message>>

\* case <-cancelChan: a receive on the closed channel, or the receive that a
\* sender has completed while the worker was blocked in the select.
WorkerCancel(k) ==
  /\ Alive
  /\ k \in Workers
  /\ \/ worker[k].pc = "signalled"
     \/ worker[k].pc = "select" /\ closes[worker[k].cancelChan] > 0
  /\ worker' = [worker EXCEPT ![k].pc = "deferred", ![k].exit = "cancel"]
  /\ Emit(k, {"CANCELLED"})
  /\ UNCHANGED <<now, advances, orders, autoOrders, cancellation, cleanupOnce,
                 closes, signals, placed, pollers, tasks, readPump, sendClosed, gateway, hub,
                 wire, writePump, message>>

\* The expiry case without its return: the loop goes on after the notice.
WorkerExpiryTimerNoReturn(k) ==
  /\ Alive
  /\ k \in Workers
  /\ worker[k].pc = "select"
  /\ now >= worker[k].timerAt
  /\ Emit(k, {"EXPIRED"})
  /\ UNCHANGED <<now, advances, orders, autoOrders, cancellation, cleanupOnce,
                 closes, signals, worker, placed, pollers, tasks, readPump, sendClosed,
                 gateway, hub,
                 wire, writePump, message>>

\* case <-expiryTimer.C
WorkerExpiryTimer(k) ==
  /\ Alive
  /\ k \in Workers
  /\ worker[k].pc = "select"
  /\ now >= worker[k].timerAt
  /\ worker' = [worker EXCEPT ![k].pc = "deferred", ![k].exit = "timer"]
  /\ Emit(k, {"EXPIRED"})
  /\ UNCHANGED <<now, advances, orders, autoOrders, cancellation, cleanupOnce,
                 closes, signals, placed, pollers, tasks, readPump, sendClosed, gateway, hub,
                 wire, writePump, message>>

\* The ticker fires on multiples of its period after creation.
NextTickAfter(nextTick, period, t) ==
  nextTick + period * (((t - nextTick) \div period) + 1)

\* The ticker case taken while the previous tick's placement is still in
\* flight.
WorkerTickOverlapping(k) ==
  /\ Alive
  /\ k \in Workers
  /\ worker[k].pc \in {"select", "placing"}
  /\ now >= worker[k].nextTick
  /\ worker' = [worker EXCEPT ![k].pc = "eval",
                   ![k].nextTick = NextTickAfter(worker[k].nextTick,
                                                 checkDelay(orders[k].interval), now)]
  /\ UNCHANGED <<now, advances, orders, autoOrders, cancellation, cleanupOnce,
                 closes, signals, placed, emitted, pollers, tasks, readPump,
                 sendClosed, crashed, gateway, hub,
                 send, wire, writePump, message>>

\* case <-ticker.C, up to the call of EvaluatePineCondition.
WorkerTick(k) ==
  /\ Alive
  /\ k \in Workers
  /\ worker[k].pc = "select"
  /\ now >= worker[k].nextTick
  /\ LET nt == NextTickAfter(worker[k].nextTick, checkDelay(orders[k].interval), now)
     IN IF now > orders[k].expiresAt
        THEN /\ worker' = [worker EXCEPT ![k].pc = "deferred", ![k].exit = "tickExpiry",
                                         ![k].nextTick = nt]
             /\ Emit(k, {"EXPIRED"})
        ELSE /\ worker' = [worker EXCEPT ![k].pc = "eval", ![k].nextTick = nt]
             /\ UNCHANGED <<emitted, send, crashed>>
  /\ UNCHANGED <<now, advances, orders, autoOrders, cancellation, cleanupOnce,
                 closes, signals, placed, pollers, tasks, readPump, sendClosed, gateway, hub,
                 wire, writePump, message>>

TotalPlaced == LET RECURSIVE Sum(_)
                   Sum(i) == IF i = 0 THEN 0 ELSE placed[i] + Sum(i - 1)
               IN Sum(Len(placed))

\* EvaluatePineCondition returns isMet and err, line 616.
WorkerEval(k) ==
  /\ Alive
  /\ k \in Workers
  /\ worker[k].pc = "eval"
  /\ \E hist \in Histories :
       LET res == EvaluatePineCondition(orders[k].cond, hist)
       IN /\ res.met => TotalPlaced < MaxPlaces
          /\ worker' = [worker EXCEPT ![k].pc = "evaluated", ![k].err = res.err,
                                          ![k].isMet = res.met,
                                          ![k].fetch = Fetched(hist)]
  /\ UNCHANGED <<now, advances, orders, autoOrders, cancellation, cleanupOnce,
                 closes, signals, placed, emitted, pollers, tasks, readPump, sendClosed,
                 crashed,
                 gateway, hub,
                 send, wire, writePump, message>>

\* What the worker does with the result, lines 617-622: "continue" (back to
\* the select) or "place".
AfterEvaluation(err, isMet) ==
  IF err # "" THEN "continue"
  ELSE IF isMet THEN "place" ELSE "continue"

\* The branch on the result placing only the first match of a monitor.
WorkerDecideOnce(k) ==
  /\ Alive
  /\ k \in Workers
  /\ worker[k].pc = "evaluated"
  /\ IF AfterEvaluation(worker[k].err, worker[k].isMet) = "place" /\ placed[k] = 0
     THEN /\ worker' = [worker EXCEPT ![k].pc = "placing", ![k].err = "", ![k].isMet = FALSE,
                                          ![k].fetch = ""]
          /\ placed' = [placed EXCEPT ![k] = @ + 1]
     ELSE /\ worker' = [worker EXCEPT ![k].pc = "select", ![k].err = "", ![k].isMet = FALSE,
                                          ![k].fetch = ""]
          /\ UNCHANGED placed
  /\ UNCHANGED <<now, advances, orders, autoOrders, cancellation, cleanupOnce,
                 closes, signals, emitted, pollers, tasks, readPump, sendClosed,
                 crashed,
                 gateway, hub,
                 send, wire, writePump, message>>

\* Lines 617-643: the branch on the result; on a match the placeSmartOrder
\* call starts.
WorkerDecide(k) ==
  /\ Alive
  /\ k \in Workers
  /\ worker[k].pc = "evaluated"
  /\ IF AfterEvaluation(worker[k].err, worker[k].isMet) = "place"
     THEN /\ worker' = [worker EXCEPT ![k].pc = "placing", ![k].err = "", ![k].isMet = FALSE,
                                          ![k].fetch = ""]
          /\ placed' = [placed EXCEPT ![k] = @ + 1]
     ELSE /\ worker' = [worker EXCEPT ![k].pc = "select", ![k].err = "", ![k].isMet = FALSE,
                                          ![k].fetch = ""]
          /\ UNCHANGED placed
  /\ UNCHANGED <<now, advances, orders, autoOrders, cancellation, cleanupOnce,
                 closes, signals, emitted, pollers, tasks, readPump, sendClosed, crashed,
                 gateway, hub,
                 send, wire, writePump, message>>

\* A panic raised inside the tick: the deferred calls start to run.
WorkerPanic(k) ==
  /\ Alive
  /\ k \in Workers
  /\ worker[k].pc = "eval"
  /\ worker[k].panics < MaxPanics
  /\ worker' = [worker EXCEPT ![k].pc = "deferred", ![k].panicked = TRUE,
                                  ![k].exit = "panic", ![k].panics = @ + 1]
  /\ UNCHANGED <<now, advances, orders, autoOrders, cancellation, cleanupOnce,
                 closes, signals, placed, emitted, pollers, tasks, readPump, sendClosed,
                 crashed,
                 gateway, hub,
                 send, wire, writePump, message>>

NewPoller(k) == [order |-> k, id |-> orders[k].id, i |-> 0, pc |-> "sleep",
                 wakeAt |-> now + 15, status |-> ""]

\* PlaceOpenAlgoSmartOrder returns, with a failed placement ending the
\* monitor.
WorkerPlacedStopOnFailure(k) ==
  /\ Alive
  /\ k \in Workers
  /\ worker[k].pc = "placing"
  /\ \E accepted \in BOOLEAN :
       IF accepted
       THEN /\ Emit(k, {"EXECUTED"})
            /\ worker' = [worker EXCEPT ![k].pc = "mailExecuted"]
       ELSE /\ Emit(k, {"FAILED", "MAIL_FAILED"})
            /\ worker' = [worker EXCEPT ![k].pc = "deferred", ![k].exit = "failed"]
  /\ UNCHANGED pollers
  /\ UNCHANGED <<now, advances, orders, autoOrders, cancellation, cleanupOnce,
                 closes, signals, placed, tasks, readPump, sendClosed, gateway, hub,
                 wire, writePump, message>>

\* PlaceOpenAlgoSmartOrder returns, lines 645-649: the notice of the outcome
\* is sent, and the worker goes on to SendEmail.
WorkerPlaced(k) ==
  /\ Alive
  /\ k \in Workers
  /\ worker[k].pc = "placing"
  /\ \E accepted \in BOOLEAN :
       IF accepted
       THEN /\ Emit(k, {"EXECUTED"})
            /\ worker' = [worker EXCEPT ![k].pc = "mailExecuted"]
       ELSE /\ Emit(k, {"FAILED"})
            /\ worker' = [worker EXCEPT ![k].pc = "mailFailed"]
  /\ UNCHANGED pollers
  /\ UNCHANGED <<now, advances, orders, autoOrders, cancellation, cleanupOnce,
                 closes, signals, placed, tasks, readPump, sendClosed, gateway, hub,
                 wire, writePump, message>>

\* SendEmail returns, lines 647 and 651-652: after an accepted order the
\* poller is spawned; the worker is back at its select.
WorkerMailed(k) ==
  /\ Alive
  /\ k \in Workers
  /\ worker[k].pc \in {"mailExecuted", "mailFailed"}
  /\ IF worker[k].pc = "mailExecuted"
     THEN /\ Emit(k, {"MAIL_EXECUTED"})
          /\ pollers' = Append(pollers, NewPoller(k))
     ELSE /\ Emit(k, {"MAIL_FAILED"})
          /\ UNCHANGED pollers
  /\ worker' = [worker EXCEPT ![k].pc = "select"]
  /\ UNCHANGED <<now, advances, orders, autoOrders, cancellation, cleanupOnce,
                 closes, signals, placed, tasks, readPump, sendClosed, gateway, hub,
                 wire, writePump, message>>

\* The deferred cleanup of lines 597-600, then the outermost deferred
\* function, which does nothing unless a panic is being recovered.
WorkerDeferred(k) ==
  /\ Alive
  /\ k \in Workers
  /\ worker[k].pc = "deferred"
  /\ SetRegistry(removeAutoOrder(Registry, orders[k].id))
  /\ worker' = [worker EXCEPT ![k] = IF worker[k].panicked
                                        THEN [worker[k] EXCEPT !.pc = "recover"]
                                        ELSE Finished(worker[k], worker[k].exit)]
  /\ UNCHANGED <<now, advances, orders, signals, placed, emitted, pollers,
                 tasks, readPump, sendClosed, crashed,
                 gateway, hub,
                 send, wire, writePump, message>>

\* The recovery of lines 552-555: the crash notice is sent.
WorkerRecover(k) ==
  /\ Alive
  /\ k \in Workers
  /\ worker[k].pc = "recover"
  /\ Emit(k, {"CRASHED"})
  /\ worker' = [worker EXCEPT ![k].pc = "crashMail"]
  /\ UNCHANGED <<autoOrders, cancellation, cleanupOnce, closes>>
  /\ UNCHANGED <<now, advances, orders, signals, placed, pollers, tasks,
                 readPump, sendClosed, gateway, hub,
                 wire, writePump, message>>

\* SendEmail returns and the clock is read, lines 556-557.
WorkerCrashMailed(k) ==
  /\ Alive
  /\ k \in Workers
  /\ worker[k].pc = "crashMail"
  /\ Emit(k, {"MAIL_CRASHED"})
  /\ worker' = [worker EXCEPT ![k].pc = IF now < orders[k].expiresAt
                                        THEN "restart" ELSE "noRestart"]
  /\ UNCHANGED <<autoOrders, cancellation, cleanupOnce, closes>>
  /\ UNCHANGED <<now, advances, orders, signals, placed, pollers, tasks,
                 readPump, sendClosed, gateway, hub,
                 wire, writePump, message>>

\* Lines 558-561: the second notice; before the expiry the new worker is
\* started (line 559), after it the removal of line 562 is still to come.
WorkerRestart(k) ==
  /\ Alive
  /\ k \in Workers
  /\ worker[k].pc \in {"restart", "noRestart"}
  /\ IF worker[k].pc = "restart"
     THEN /\ Emit(k, {"RESTART"})
          /\ worker' = [worker EXCEPT ![k] = [NewWorker EXCEPT !.panics = worker[k].panics]]
     ELSE /\ Emit(k, {"NO_RESTART"})
          /\ worker' = [worker EXCEPT ![k].pc = "remove"]
  /\ UNCHANGED <<autoOrders, cancellation, cleanupOnce, closes>>
  /\ UNCHANGED <<now, advances, orders, signals, placed, pollers, tasks,
                 readPump, sendClosed, gateway, hub,
                 wire, writePump, message>>

\* Line 562: removeAutoOrder takes orderMux and removes the record the
\* registry holds under the id; then the deferred function returns.
WorkerRemove(k) ==
  /\ Alive
  /\ k \in Workers
  /\ worker[k].pc = "remove"
  /\ SetRegistry(removeAutoOrder(Registry, orders[k].id))
  /\ worker' = [worker EXCEPT ![k] = Finished(worker[k], "panic")]
  /\ UNCHANGED <<now, advances, orders, signals, placed, emitted, pollers,
                 tasks, readPump, sendClosed, crashed,
                 gateway, hub,
                 send, wire, writePump, message>>

\* --------------------------------------------------------------- poller
Pollers == 1..Len(pollers)

MaxRetries == 5
RetryInterval == 15

\* pollOrderStatus after a sleep: the registry check of lines 666-672.
PollWake(p) ==
  /\ Alive
  /\ p \in Pollers
  /\ pollers[p].pc = "sleep"
  /\ now >= pollers[p].wakeAt
  /\ IF pollers[p].id \notin DOMAIN autoOrders
     THEN /\ pollers' = [pollers EXCEPT ![p].pc = "done"]
          /\ UNCHANGED <<emitted, send>>
     ELSE /\ pollers' = [pollers EXCEPT ![p].pc = "fetch"]
          /\ UNCHANGED <<emitted, send>>
  /\ UNCHANGED <<now, advances, orders, autoOrders, cancellation, cleanupOnce,
                 closes, signals, worker, placed, tasks, readPump, sendClosed, crashed,
                 gateway, hub,
                 wire, writePump, message>>

\* time.Sleep(retryInterval) of a poller runs out: the clock reaches its
\* wake-up time.
PollSleep(p) ==
  /\ Alive
  /\ p \in Pollers
  /\ pollers[p].pc = "sleep"
  /\ now < pollers[p].wakeAt
  /\ now' = pollers[p].wakeAt
  /\ UNCHANGED <<advances, orders, autoOrders, cancellation, cleanupOnce,
                 closes, signals, worker, placed, emitted, pollers, tasks,
                 readPump, sendClosed, crashed,
                 gateway, hub,
                 send, wire, writePump, message>>

\* What one attempt does with the status it read (after strings.ToLower),
\* lines 675-697: "retry", "exit" or "fail".
AfterStatusRejectedRetried(status) ==
  IF status = "complete" THEN "exit"
  ELSE IF status = "cancelled" THEN "fail"
  ELSE "retry"

AfterStatus(status) ==
  IF status = "error" THEN "retry"
  ELSE IF status = "complete" THEN "exit"
  ELSE IF status \in {"rejected", "cancelled"} THEN "fail"
  ELSE "retry"

\* FetchOrderStatus returns, line 674: attempt i has its answer.
PollFetched(p) ==
  /\ Alive
  /\ p \in Pollers
  /\ pollers[p].pc = "fetch"
  /\ \E status \in {"error", "complete", "rejected", "cancelled", "open", "trigger pending"} :
       pollers' = [pollers EXCEPT ![p].pc = "fetched", ![p].i = @ + 1,
                                  ![p].status = status]
  /\ UNCHANGED <<now, advances, orders, autoOrders, cancellation, cleanupOnce,
                 closes, signals, worker, placed, emitted, tasks, readPump,
                 sendClosed, crashed,
                 gateway, hub,
                 send, wire, writePump, message>>

\* Lines 675-690: the branch on the answer, which is local to the
\* iteration; on "rejected" and "cancelled" the failure notice is sent.
PollDecide(p) ==
  /\ Alive
  /\ p \in Pollers
  /\ pollers[p].pc = "fetched"
  /\ CASE AfterStatus(pollers[p].status) = "exit" ->
            /\ pollers' = [pollers EXCEPT ![p].pc = "done"]
            /\ UNCHANGED <<emitted, send, crashed>>
       [] AfterStatus(pollers[p].status) = "fail" ->
            /\ pollers' = [pollers EXCEPT ![p].pc = "mailFailure"]
            /\ Emit(pollers[p].order, {"ORDER_FAILURE"})
       [] OTHER ->
            /\ pollers' = [pollers EXCEPT ![p].status = "",
                  ![p].pc = IF pollers[p].i < MaxRetries THEN "sleep" ELSE "final",
                  ![p].wakeAt = now + RetryInterval]
            /\ UNCHANGED <<emitted, send, crashed>>
  /\ UNCHANGED <<now, advances, orders, autoOrders, cancellation, cleanupOnce,
                 closes, signals, worker, placed, tasks, readPump, sendClosed,
                 gateway, hub,
                 wire, writePump, message>>

\* Lines 700-705: the attempts are used up and the registry is read again.
PollExhausted(p) ==
  /\ Alive
  /\ p \in Pollers
  /\ pollers[p].pc = "final"
  /\ pollers' = [pollers EXCEPT ![p].pc = IF pollers[p].id \in DOMAIN autoOrders
                                          THEN "unresolved" ELSE "done"]
  /\ UNCHANGED <<now, advances, orders, autoOrders, cancellation, cleanupOnce,
                 closes, signals, worker, placed, emitted, tasks, readPump,
                 sendClosed, crashed, gateway, hub,
                 send, wire, writePump, message>>

\* Line 710: the unresolved notice is sent.
PollUnresolved(p) ==
  /\ Alive
  /\ p \in Pollers
  /\ pollers[p].pc = "unresolved"
  /\ pollers' = [pollers EXCEPT ![p].pc = "mailUnresolved"]
  /\ Emit(pollers[p].order, {"UNRESOLVED"})
  /\ UNCHANGED <<now, advances, orders, autoOrders, cancellation, cleanupOnce,
                 closes, signals, worker, placed, tasks, readPump, sendClosed,
                 gateway, hub,
                 wire, writePump, message>>

\* SendEmail returns, lines 691-696 and 711-715, and the poller returns.
PollMailed(p) ==
  /\ Alive
  /\ p \in Pollers
  /\ pollers[p].pc \in {"mailFailure", "mailUnresolved"}
  /\ pollers' = [pollers EXCEPT ![p].pc = "done"]
  /\ Emit(pollers[p].order, IF pollers[p].pc = "mailFailure"
                            THEN {"MAIL_ORDER_FAILURE"} ELSE {"MAIL_UNRESOLVED"})
  /\ UNCHANGED <<now, advances, orders, autoOrders, cancellation, cleanupOnce,
                 closes, signals, worker, placed, tasks, readPump, sendClosed,
                 gateway, hub,
                 wire, writePump, message>>

\* ------------------------------------------------- session and dispatch
\* An inbound chat frame: an auto command with its arguments, another slash
\* command, or free text for the chat backend.
\* id is the argument of a command that names a monitor; -1 when there is
\* none.
Input(kind, action, product, qty, interval, validity, cond) ==
  [kind |-> kind, action |-> action, product |-> product, qty |-> qty,
   interval |-> interval, validity |-> validity, cond |-> cond, id |-> 0 - 1]

\* A quantity argument: decimal digits with an optional sign, or other text.
QNum(n) == [numeric |-> TRUE, n |-> n]

\* strconv.Atoi: [ok, n]
Atoi(q) == [ok |-> q.numeric, n |-> IF q.numeric THEN q.n ELSE 0]

GoodAuto(validity, cond) == Input("auto", "BUY", NRML, QNum(10), I5m, validity, cond)

NoInput == Input("", "", << >>, QNum(0), VBad, VBad, PredRsi)
OtherCommand == Input("other", "", << >>, QNum(0), VBad, VBad, PredRsi)
ChatText == Input("chat", "", << >>, QNum(0), VBad, VBad, PredRsi)

\* /cancel_order <ID>
CancelOrder(id) == [Input("cancel", "", << >>, QNum(0), VBad, VBad, PredRsi) EXCEPT !.id = id]

\* The frames the session receives in the lifecycle specification.
Inputs == {GoodAuto(VDur(2, "h"), PredRsi), OtherCommand, ChatText}

Tasks == 1..MaxTasks

IdleTask == [pc |-> "idle", input |-> NoInput, expiresAt |-> 0, reply |-> ""]
DoneTask == [pc |-> "done", input |-> NoInput, expiresAt |-> 0, reply |-> ""]
PanicTask == [pc |-> "panic", input |-> NoInput, expiresAt |-> 0, reply |-> ""]

AutoTasks == {h \in Tasks : tasks[h].pc \in {"typing", "initial"} /\ tasks[h].input.kind = "auto"}

\* What handleChatMessage sends on the read task for the frame task h will
\* handle: the error notice when the save failed, else the user echo, and
\* for free text the typing-on indicator after it.
ReadFrames(h, input, saved) ==
  IF ~saved THEN <<Frame("read", h, "SAVE_ERROR", 1)>>
  ELSE IF input.kind = "chat"
  THEN <<Frame("read", h, "ECHO", 1), Frame("read", h, "TYPING_ON", 2)>>
  ELSE <<Frame("read", h, "ECHO", 1)>>

\* The task a received frame leaves behind once the read task has sent its
\* first frame: free text has the typing-on indicator still to send.
Spawned(input, saved) ==
  IF ~saved THEN DoneTask
  ELSE [pc |-> IF input.kind = "chat" THEN "aityping" ELSE "typing",
        input |-> input, expiresAt |-> 0, reply |-> ""]

\* handleChatMessage on the read task, lines 866-890: the save, then the
\* first send.  ReadMessage returns a frame only while the connection is
\* open.  db.CreateChatMessage returns the saved row, an error, or neither
\* when the row just inserted is not found again (database.go 215-243); then
\* line 881 reads through nil, which panics on the read task.  A panic on
\* the read task first runs the deferred function of lines 794-797, which
\* hands the client to the hub (readPump is "panicking"); the other tasks
\* run on until the process ends.  With no room in the outbound channel the
\* read task stays in its send.  The error notice of line 875
\* goes through sendError, which recovers on the closed channel; the echo of
\* line 890 is a bare send, which panics there on the read task.  After the
\* echo of free text the read task goes on to the send of line 897.
handleChatMessage(h, In) ==
  /\ Alive
  /\ readPump = "running"
  /\ writePump # "exited"
  /\ tasks[h].pc = "idle"
  /\ \A g \in Tasks : g < h => tasks[g].pc # "idle"
  /\ \E input \in In, outcome \in {"row", "error", "none"} :
       LET saved == outcome = "row"
       IN /\ input.kind = "auto" => Len(orders) + Cardinality(AutoTasks) < MaxOrders
          /\ IF outcome = "none" \/ (sendClosed /\ saved)
             THEN /\ readPump' = "panicking"
                  /\ UNCHANGED <<tasks, send>>
             ELSE IF CanSend(1)
             THEN /\ Sends(<<ReadFrames(h, input, saved)[1]>>)
                  /\ tasks' = [tasks EXCEPT ![h] = Spawned(input, saved)]
                  /\ readPump' = IF saved /\ input.kind = "chat"
                                 THEN "sending" ELSE "running"
             ELSE /\ tasks' = [tasks EXCEPT ![h] =
                       [pc |-> IF saved THEN "echo" ELSE "unsaved",
                        input |-> input, expiresAt |-> 0, reply |-> ""]]
                  /\ readPump' = "sending"
                  /\ UNCHANGED send
  /\ UNCHANGED <<now, advances, orders, autoOrders, cancellation, cleanupOnce,
                 closes, signals, worker, placed, emitted, pollers,
                 sendClosed, crashed, gateway, hub, wire, writePump, message>>

\* The read task gets one frame of handleChatMessage into the outbound
\* channel, lines 875, 890 and 897.  On the closed channel the sendError of
\* line 875 recovers and the bare sends of lines 890 and 897 panic.
ReadPumpSend(h) ==
  /\ Alive
  /\ readPump = "sending"
  /\ tasks[h].pc \in {"unsaved", "echo", "aityping"}
  /\ LET input == tasks[h].input
         frames == ReadFrames(h, input, tasks[h].pc # "unsaved")
     IN CASE tasks[h].pc = "unsaved" ->
               /\ Sends(frames)
               /\ tasks' = [tasks EXCEPT ![h] = DoneTask]
               /\ readPump' = "running"
          [] tasks[h].pc # "unsaved" /\ sendClosed ->
               /\ readPump' = "panicking"
               /\ UNCHANGED <<tasks, send>>
          [] tasks[h].pc = "echo" /\ ~sendClosed ->
               /\ Sends(<<frames[1]>>)
               /\ tasks' = [tasks EXCEPT ![h].pc =
                              IF input.kind = "chat" THEN "aityping" ELSE "typing"]
               /\ readPump' = IF input.kind = "chat" THEN "sending" ELSE "running"
          [] tasks[h].pc = "aityping" /\ ~sendClosed ->
               /\ Sends(<<frames[2]>>)
               /\ tasks' = [tasks EXCEPT ![h].pc = "ai"]
               /\ readPump' = "running"
  /\ UNCHANGED <<now, advances, orders, autoOrders, cancellation, cleanupOnce,
                 closes, signals, worker, placed, emitted, pollers,
                 sendClosed, crashed, gateway, hub, wire, writePump, message>>

\* The argument checks of the *_auto branch, lines 940-957.
AutoAccepted(input, t) ==
  /\ ToUpper(input.product) \in Products
  /\ Atoi(input.qty).ok /\ Atoi(input.qty).n > 0
  /\ ToLower(input.interval) \in {I5m, I15m, I1h}
  /\ parseValidity(ToLower(input.validity), t).ok

\* responseContent after the switch for a command that starts nothing: the
\* first check of lines 940-957 that fails names its argument.
DispatchReply(input, t) ==
  IF input.kind # "auto" THEN "Other"
  ELSE IF ToUpper(input.product) \notin Products THEN "InvalidProduct"
  ELSE IF ~Atoi(input.qty).ok \/ Atoi(input.qty).n <= 0 THEN "InvalidQuantity"
  ELSE IF ToLower(input.interval) \notin {I5m, I15m, I1h} THEN "UnsupportedInterval"
  ELSE IF ~parseValidity(ToLower(input.validity), t).ok THEN "InvalidValidity"
  ELSE ""

\* handleTradingCommand, lines 903-958: the typing frame goes out with a bare
\* channel send, then the arguments are checked and the first evaluation is
\* requested.
CmdDispatch(h) ==
  /\ Alive
  /\ tasks[h].pc = "typing"
  /\ IF sendClosed
     THEN /\ crashed' = TRUE
          /\ tasks' = [tasks EXCEPT ![h] = PanicTask]
          /\ UNCHANGED send
     ELSE /\ UNCHANGED crashed
          /\ Sends(<<Frame("cmd", h, "TYPING_ON", 1)>>)
          /\ IF tasks[h].input.kind = "auto" /\ AutoAccepted(tasks[h].input, now)
             THEN tasks' = [tasks EXCEPT ![h].pc = "initial",
                              ![h].expiresAt = parseValidity(ToLower(tasks[h].input.validity), now).at]
             ELSE IF tasks[h].input.kind = "cancel"
             THEN tasks' = [tasks EXCEPT ![h].pc = "cancel"]
             ELSE tasks' = [tasks EXCEPT ![h].pc = "respond",
                              ![h].reply = DispatchReply(tasks[h].input, now)]
  /\ UNCHANGED <<now, advances, orders, autoOrders, cancellation, cleanupOnce,
                 closes, signals, worker, placed, emitted, pollers, readPump,
                 sendClosed, gateway, hub, wire, writePump, message>>

\* Line 963, once the first evaluation has returned (its result only feeds
\* the reply text).
CmdStart(h) ==
  /\ Alive
  /\ tasks[h].pc = "initial"
  /\ StartAutoOrderMonitoring([tasks[h].input EXCEPT !.interval = ToLower(@),
                                                     !.product = ToUpper(@)],
                              tasks[h].expiresAt)
  /\ tasks' = [tasks EXCEPT ![h].pc = "respond", ![h].reply = "Started"]
  /\ UNCHANGED <<now, advances, pollers, readPump, sendClosed, crashed,
                 gateway, hub, send, wire, writePump, message>>

\* A tick of monitor k has matched: its evaluation came out true.
Matched(k) == placed[k] > 0 \/ (worker[k].pc = "evaluated" /\ worker[k].isMet)

\* A worker blocked in its select: no case is ready.
Parked(k) ==
  /\ worker[k].pc = "select"
  /\ now < worker[k].nextTick
  /\ now < worker[k].timerAt
  /\ closes[worker[k].cancelChan] = 0

\* /cancel_order <ID>, first half: the ownership check (the registry holds
\* this session's monitors only) and signalCancel, a non-blocking send that
\* a worker blocked in its select receives.  signals keeps, per channel, one
\* entry for every signalCancel call: whether a tick had matched by then.
CmdCancelSignal(h) ==
  /\ Alive
  /\ tasks[h].pc = "cancel"
  /\ LET id == tasks[h].input.id
     IN IF id \notin DOMAIN autoOrders \/ id \notin DOMAIN cancellation
        THEN /\ tasks' = [tasks EXCEPT ![h].pc = "respond", ![h].reply = "NotFound"]
             /\ UNCHANGED <<signals, worker>>
        ELSE LET ch == cancellation[id]
             IN /\ tasks' = [tasks EXCEPT ![h].pc = "remove"]
                /\ signals' = [signals EXCEPT ![ch] = Append(@, Matched(ch))]
                /\ worker' = IF Parked(ch)
                              THEN [worker EXCEPT ![ch].pc = "signalled"]
                              ELSE worker
  /\ UNCHANGED <<now, advances, orders, autoOrders, cancellation, cleanupOnce,
                 closes, placed, emitted, pollers, readPump, sendClosed, crashed,
                 gateway, hub,
                 send, wire, writePump, message>>

\* /cancel_order <ID>, second half: remove from the registry.
CmdCancelRemove(h) ==
  /\ Alive
  /\ tasks[h].pc = "remove"
  /\ SetRegistry(removeAutoOrder(Registry, tasks[h].input.id))
  /\ tasks' = [tasks EXCEPT ![h].pc = "respond", ![h].reply = "Cancelled"]
  /\ UNCHANGED <<now, advances, orders, signals, worker, placed, emitted,
                 pollers, readPump, sendClosed, crashed,
                 gateway, hub,
                 send, wire, writePump, message>>

\* handleTradingCommand, lines 978-1000: the reply is saved and typing-off
\* goes out with a bare send, which panics on the closed channel; the frame
\* for the reply is then built from the saved row, which is nil when the
\* save failed.
CmdRespond(h) ==
  /\ Alive
  /\ tasks[h].pc = "respond"
  /\ \E saved \in BOOLEAN :
       IF sendClosed
       THEN /\ crashed' = TRUE
            /\ tasks' = [tasks EXCEPT ![h] = PanicTask]
            /\ UNCHANGED send
       ELSE /\ Sends(<<Frame("cmd", h, "TYPING_OFF", 2)>>)
            /\ IF saved
               THEN /\ UNCHANGED crashed
                    /\ tasks' = [tasks EXCEPT ![h].pc = "reply"]
               ELSE /\ crashed' = TRUE
                    /\ tasks' = [tasks EXCEPT ![h] = PanicTask]
  /\ UNCHANGED <<now, advances, orders, autoOrders, cancellation, cleanupOnce,
                 closes, signals, worker, placed, emitted, pollers, readPump, sendClosed,
                 gateway, hub, wire, writePump, message>>

\* handleTradingCommand, line 1002: the reply goes out with a second bare send.
CmdReply(h) ==
  /\ Alive
  /\ tasks[h].pc = "reply"
  /\ IF sendClosed
     THEN /\ crashed' = TRUE
          /\ tasks' = [tasks EXCEPT ![h] = PanicTask]
          /\ UNCHANGED send
     ELSE /\ Sends(<<Frame("cmd", h, "REPLY", 3)>>)
          /\ UNCHANGED crashed
          /\ tasks' = [tasks EXCEPT ![h] = DoneTask]
  /\ UNCHANGED <<now, advances, orders, autoOrders, cancellation, cleanupOnce,
                 closes, signals, worker, placed, emitted, pollers, readPump, sendClosed,
                 gateway, hub, wire, writePump, message>>

\* processAIResponse, lines 1005-1048: the reply is saved and typing-off
\* goes out with a bare send, which panics on the closed channel; the frame
\* for the reply is then built from the saved row, which is nil when the
\* save failed.
processAIResponse(h) ==
  /\ Alive
  /\ tasks[h].pc = "ai"
  /\ \E saved \in BOOLEAN :
       IF sendClosed
       THEN /\ crashed' = TRUE
            /\ tasks' = [tasks EXCEPT ![h] = PanicTask]
            /\ UNCHANGED send
       ELSE /\ Sends(<<Frame("ai", h, "TYPING_OFF", 2)>>)
            /\ IF saved
               THEN /\ UNCHANGED crashed
                    /\ tasks' = [tasks EXCEPT ![h].pc = "aireply"]
               ELSE /\ crashed' = TRUE
                    /\ tasks' = [tasks EXCEPT ![h] = PanicTask]
  /\ UNCHANGED <<now, advances, orders, autoOrders, cancellation, cleanupOnce,
                 closes, signals, worker, placed, emitted, pollers, readPump, sendClosed,
                 gateway, hub, wire, writePump, message>>

\* processAIResponse, line 1050: the reply goes out with a second bare send.
AIReply(h) ==
  /\ Alive
  /\ tasks[h].pc = "aireply"
  /\ IF sendClosed
     THEN /\ crashed' = TRUE
          /\ tasks' = [tasks EXCEPT ![h] = PanicTask]
          /\ UNCHANGED send
     ELSE /\ Sends(<<Frame("ai", h, "REPLY", 3)>>)
          /\ UNCHANGED crashed
          /\ tasks' = [tasks EXCEPT ![h] = DoneTask]
  /\ UNCHANGED <<now, advances, orders, autoOrders, cancellation, cleanupOnce,
                 closes, signals, worker, placed, emitted, pollers, readPump, sendClosed,
                 gateway, hub, wire, writePump, message>>

\* Pong frames the read task has sent or is sending.
Pongs ==
  Len(SelectSeq(wire \o message \o send, LAMBDA f : f.kind = "PONG"))
    + (IF readPump = "pong" THEN 1 ELSE 0)

\* ReadPump, case "ping" (and likewise "typing"), lines 825-830: the answer
\* goes out with a bare send on the read task, which panics on the closed
\* channel.  A panic on the read task is not recovered: it first runs the
\* deferred function of lines 794-797 (readPump is "panicking").
ReadPumpPing ==
  /\ Alive
  /\ readPump = "running"
  /\ writePump = "running"
  /\ Pongs < MaxPings
  /\ IF sendClosed
     THEN readPump' = "panicking" /\ UNCHANGED send
     ELSE IF CanSend(1)
     THEN Sends(<<Frame("read", 0, "PONG", Pongs + 1)>>) /\ UNCHANGED readPump
     ELSE readPump' = "pong" /\ UNCHANGED send
  /\ UNCHANGED <<now, advances, orders, autoOrders, cancellation, cleanupOnce,
                 closes, signals, worker, placed, emitted, pollers, tasks,
                 sendClosed, crashed, gateway, hub, wire, writePump, message>>

\* The read task gets its pong into the outbound channel, or panics in its
\* send when the channel has been closed meanwhile.
ReadPumpPong ==
  /\ Alive
  /\ readPump = "pong"
  /\ IF sendClosed
     THEN readPump' = "panicking" /\ UNCHANGED send
     ELSE /\ Sends(<<Frame("read", 0, "PONG", Pongs)>>)
          /\ readPump' = "running"
  /\ UNCHANGED <<now, advances, orders, autoOrders, cancellation, cleanupOnce,
                 closes, signals, worker, placed, emitted, pollers, tasks,
                 sendClosed, crashed, gateway, hub, wire, writePump, message>>

\* ReadPump leaves its loop on a read error; the deferred function offers
\* the client on hub.Unregister.
ReadPumpExit ==
  /\ Alive
  /\ readPump = "running"
  /\ readPump' = "unregistering"
  /\ UNCHANGED <<now, advances, orders, autoOrders, cancellation, cleanupOnce,
                 closes, signals, worker, placed, emitted, pollers, tasks, sendClosed,
                 crashed,
                 gateway, hub,
                 send, wire, writePump, message>>

\* WritePump's deferred c.conn.Close() makes the ReadMessage of line 806
\* return an error: a read task waiting there leaves its loop.
ReadPumpConnClosed == writePump = "exited" /\ ReadPumpExit

\* Hub.Run, case client := <-h.Unregister, under the write lock: the channel
\* is closed when the client is still in h.clients, that is, when the
\* broadcast arm has not closed it before.  The arms of Hub.Run are taken one
\* after the other.  A client leaves h.clients with the close of its
\* channel, save between lines 62 and 63 of the broadcast arm (hub is
\* "deleting" there).  The sender is the deferred function of ReadPump,
\* lines 794-797, which also runs while a panic unwinds the read task: then
\* the process ends once that function has returned, after the hub has
\* closed the channel or before.
HubUnregister ==
  /\ Alive
  /\ hub = "idle"
  /\ readPump \in {"unregistering", "panicking"}
  /\ \E closed \in BOOLEAN :
       IF closed \/ readPump = "unregistering"
       THEN /\ readPump' = IF readPump = "panicking" THEN "dying" ELSE "closed"
            /\ IF ~sendClosed THEN sendClosed' = TRUE ELSE UNCHANGED sendClosed
            /\ UNCHANGED crashed
       ELSE /\ readPump' = "panic"
            /\ crashed' = TRUE
            /\ UNCHANGED sendClosed
  /\ UNCHANGED <<now, advances, orders, autoOrders, cancellation, cleanupOnce,
                 closes, signals, worker, placed, emitted, pollers, tasks,
                 gateway, hub,
                 send, wire, writePump, message>>

\* The deferred function of a panicking read task has returned (conn.Close,
\* line 796): the panic is not recovered and ends the process.
ReadPumpPanic ==
  /\ Alive
  /\ readPump = "dying"
  /\ readPump' = "panic"
  /\ crashed' = TRUE
  /\ UNCHANGED <<now, advances, orders, autoOrders, cancellation, cleanupOnce,
                 closes, signals, worker, placed, emitted, pollers, tasks, sendClosed,
                 gateway, hub,
                 send, wire, writePump, message>>

\* Frames the hub has put into the outbound channel.
HubFrames == Len(SelectSeq(wire \o message \o send, LAMBDA f : f.from = "hub"))

\* Hub.BroadcastToAll and the broadcast arm of Hub.Run for a client in
\* h.clients, lines 56-62: a send that never waits puts the frame into the
\* channel when there is room, else the channel is closed.  The arm holds the
\* read lock only, so the delete of line 63 is a step of its own.
HubBroadcast ==
  /\ Alive
  /\ hub = "idle"
  /\ ~sendClosed
  /\ HubFrames < MaxHubSends
  /\ IF ~Observed \/ Len(send) < SendCap
     THEN Sends(<<Frame("hub", 0, "BROADCAST", HubFrames + 1)>>) /\ UNCHANGED <<sendClosed, hub>>
     ELSE sendClosed' = TRUE /\ hub' = "deleting" /\ UNCHANGED send
  /\ UNCHANGED <<now, advances, orders, autoOrders, cancellation, cleanupOnce,
                 closes, signals, worker, placed, emitted, pollers, tasks,
                 readPump, crashed, gateway, wire, writePump, message>>

\* The broadcast arm, line 63: delete(h.clients, client).
HubBroadcastDelete ==
  /\ Alive
  /\ hub = "deleting"
  /\ hub' = "idle"
  /\ UNCHANGED <<now, advances, orders, autoOrders, cancellation, cleanupOnce,
                 closes, signals, worker, placed, emitted, pollers, tasks,
                 readPump, sendClosed, crashed, gateway, send, wire, writePump, message>>

\* Hub.SendToUser, under the read lock, for a client it finds in h.clients:
\* the frame is put into the channel when there is room, else it is dropped
\* with a log line.  The broadcast arm holds the same read lock while it
\* closes and deletes: a call that runs between lines 62 and 63 sends on the
\* closed channel and panics in its caller, or its iteration meets the map
\* write and the runtime stops the process.
HubSendToUser ==
  /\ Alive
  /\ ~sendClosed \/ hub = "deleting"
  /\ HubFrames < MaxHubSends
  /\ IF sendClosed
     THEN crashed' = TRUE /\ UNCHANGED send
     ELSE /\ ~Observed \/ Len(send) < SendCap
          /\ Sends(<<Frame("hub", 0, "TO_USER", HubFrames + 1)>>)
          /\ UNCHANGED crashed
  /\ UNCHANGED <<now, advances, orders, autoOrders, cancellation, cleanupOnce,
                 closes, signals, worker, placed, emitted, pollers, tasks,
                 readPump, sendClosed, gateway, hub, wire, writePump, message>>

\* A write task that receives the frame sent last.
WritePumpReceiveLast ==
  /\ Alive
  /\ writePump = "running"
  /\ message = << >>
  /\ send # << >>
  /\ message' = <<send[Len(send)]>>
  /\ send' = SubSeq(send, 1, Len(send) - 1)
  /\ UNCHANGED <<now, advances, orders, autoOrders, cancellation, cleanupOnce,
                 closes, signals, worker, placed, emitted, pollers, tasks,
                 readPump, sendClosed, crashed, gateway, hub, wire, writePump>>

\* WritePump, case message, ok := <-c.send with a frame in the buffer, line
\* 844: the write task takes the frame at the head; message holds it until
\* it is written.
WritePumpReceive ==
  /\ Alive
  /\ writePump = "running"
  /\ message = << >>
  /\ send # << >>
  /\ message' = <<Head(send)>>
  /\ send' = Tail(send)
  /\ UNCHANGED <<now, advances, orders, autoOrders, cancellation, cleanupOnce,
                 closes, signals, worker, placed, emitted, pollers, tasks,
                 readPump, sendClosed, crashed, gateway, hub, wire, writePump>>

\* c.conn.WriteMessage returns, lines 851-853: the frame is on the
\* connection, or the write failed, the frame is lost and the task ends.
WritePumpWrite ==
  /\ Alive
  /\ writePump = "running"
  /\ message # << >>
  /\ message' = << >>
  /\ \E written \in BOOLEAN :
       IF written
       THEN wire' = Append(wire, message[1]) /\ UNCHANGED writePump
       ELSE writePump' = "exited" /\ UNCHANGED wire
  /\ UNCHANGED <<now, advances, orders, autoOrders, cancellation, cleanupOnce,
                 closes, signals, worker, placed, emitted, pollers, tasks,
                 readPump, sendClosed, crashed, gateway, hub, send>>

\* WritePump receives from the closed and drained channel: it writes the
\* close message and returns.
WritePumpClosed ==
  /\ Alive
  /\ writePump = "running"
  /\ message = << >>
  /\ send = << >>
  /\ sendClosed
  /\ writePump' = "exited"
  /\ UNCHANGED <<now, advances, orders, autoOrders, cancellation, cleanupOnce,
                 closes, signals, worker, placed, emitted, pollers, tasks,
                 readPump, sendClosed, crashed, gateway, hub, send, wire, message>>

\* WritePump, case <-ticker.C with a ping that cannot be written.
WritePumpPingFailed ==
  /\ Alive
  /\ writePump = "running"
  /\ message = << >>
  /\ writePump' = "exited"
  /\ UNCHANGED <<now, advances, orders, autoOrders, cancellation, cleanupOnce,
                 closes, signals, worker, placed, emitted, pollers, tasks,
                 readPump, sendClosed, crashed, gateway, hub, send, wire, message>>

\* ----------------------------------------------------------------- time

AdvanceTime ==
  /\ Alive
  /\ advances < MaxAdvances
  /\ \E d \in {300, TimerCap} : now' = now + d
  /\ advances' = advances + 1
  /\ UNCHANGED <<orders, autoOrders, cancellation, cleanupOnce, closes, signals, worker,
                 placed, emitted, pollers, tasks, readPump, sendClosed, crashed, gateway, hub,
                 send, wire, writePump, message>>

\* -------------------------------------------------------- specification
InitWith(pump) ==
  /\ now = 0
  /\ advances = 0
  /\ orders = << >>
  /\ autoOrders = << >>
  /\ cancellation = << >>
  /\ cleanupOnce = << >>
  /\ closes = << >>
  /\ signals = << >>
  /\ worker = << >>
  /\ placed = << >>
  /\ emitted = << >>
  /\ pollers = << >>
  /\ tasks = [h \in Tasks |-> IdleTask]
  /\ readPump = "running"
  /\ sendClosed = FALSE
  /\ crashed = FALSE
  /\ gateway = [op |-> "", resp |-> Response(0, FALSE, ""), err |-> ""]
  /\ hub = "idle"
  /\ send = << >>
  /\ wire = << >>
  /\ writePump = pump
  /\ message = << >>

\* The transport is left out: the writer keeps up with every sender.
Init == InitWith("unobserved")

\* The session with its outbound channel and WritePump.
InitOutbound == InitWith("running")

WorkerNext ==
  \/ \E k \in 1..MaxOrders : WorkerStart(k)
  \/ \E k \in 1..MaxOrders : WorkerTimers(k)
  \/ \E k \in 1..MaxOrders : WorkerAlreadyExpired(k)
  \/ \E k \in 1..MaxOrders : WorkerCancel(k)
  \/ \E k \in 1..MaxOrders : WorkerExpiryTimer(k)
  \/ \E k \in 1..MaxOrders : WorkerTick(k)
  \/ \E k \in 1..MaxOrders : WorkerEval(k)
  \/ \E k \in 1..MaxOrders : WorkerDecide(k)
  \/ \E k \in 1..MaxOrders : WorkerPanic(k)
  \/ \E k \in 1..MaxOrders : WorkerPlaced(k)
  \/ \E k \in 1..MaxOrders : WorkerMailed(k)
  \/ \E k \in 1..MaxOrders : WorkerDeferred(k)
  \/ \E k \in 1..MaxOrders : WorkerRecover(k)
  \/ \E k \in 1..MaxOrders : WorkerCrashMailed(k)
  \/ \E k \in 1..MaxOrders : WorkerRestart(k)
  \/ \E k \in 1..MaxOrders : WorkerRemove(k)

\* The pollers of the first MaxPollers accepted orders.
PollerNext ==
  \/ \E p \in 1..MaxPollers : PollSleep(p)
  \/ \E p \in 1..MaxPollers : PollWake(p)
  \/ \E p \in 1..MaxPollers : PollFetched(p)
  \/ \E p \in 1..MaxPollers : PollDecide(p)
  \/ \E p \in 1..MaxPollers : PollExhausted(p)
  \/ \E p \in 1..MaxPollers : PollUnresolved(p)
  \/ \E p \in 1..MaxPollers : PollMailed(p)

CommandNext(In) ==
  \/ \E h \in Tasks : handleChatMessage(h, In)
  \/ \E h \in Tasks : CmdDispatch(h)
  \/ \E h \in Tasks : CmdStart(h)
  \/ \E h \in Tasks : CmdRespond(h)
  \/ \E h \in Tasks : CmdReply(h)
  \/ HubUnregister
  \/ ReadPumpPanic

\* The whole client for a session that starts one monitor: the peer sends
\* one auto command among other commands and free text.  Every task the
\* session starts gets to run: the handlers with their replies, the worker
\* with its expiry, panic and restart, and the pollers of its orders.  The
\* cancel arm of the select is not listed: with one monitor nothing closes a
\* channel a worker waits on.  The broker accepts no more orders than
\* pollers run.
Next ==
  \/ \E k \in 1..MaxOrders : WorkerStart(k)
  \/ \E k \in 1..MaxOrders : WorkerTimers(k)
  \/ \E k \in 1..MaxOrders : WorkerAlreadyExpired(k)
  \/ \E k \in 1..MaxOrders : WorkerExpiryTimer(k)
  \/ \E k \in 1..MaxOrders : WorkerTick(k)
  \/ \E k \in 1..MaxOrders : WorkerEval(k)
  \/ \E k \in 1..MaxOrders : WorkerDecide(k)
  \/ \E k \in 1..MaxOrders : WorkerPanic(k)
  \/ \E k \in 1..MaxOrders : WorkerPlaced(k) /\ (worker'[k].pc = "mailExecuted" => Len(pollers) < MaxPollers)
  \/ \E k \in 1..MaxOrders : WorkerMailed(k)
  \/ \E k \in 1..MaxOrders : WorkerDeferred(k)
  \/ \E k \in 1..MaxOrders : WorkerRecover(k)
  \/ \E k \in 1..MaxOrders : WorkerCrashMailed(k)
  \/ \E k \in 1..MaxOrders : WorkerRestart(k)
  \/ \E k \in 1..MaxOrders : WorkerRemove(k)
  \/ PollerNext
  \/ CommandNext(IF Len(orders) + Cardinality(AutoTasks) = 0 THEN Inputs
                 ELSE {input \in Inputs : input.kind # "auto"})
  \/ \E h \in Tasks : ReadPumpSend(h)
  \/ \E h \in Tasks : processAIResponse(h)
  \/ \E h \in Tasks : AIReply(h)
  \/ ReadPumpExit
  \/ AdvanceTime

Spec == Init /\ [][Next]_vars

\* The monitors on their own: auto commands only, the session stays
\* connected.  The workers and the handlers run to their ends; the pollers of
\* the accepted orders are not scheduled.
MonitorInputs == {GoodAuto(v, PredRsi) : v \in {VDur(0, "s"), VDur(30, "s"), VDur(2, "h")}}

SpecMonitor == Init /\ [][WorkerNext \/ CommandNext(MonitorInputs) \/ AdvanceTime]_vars

\* One monitor under every predicate shape, with the handler's reply and
\* the poller of its order (the broker accepts no more orders than pollers
\* run).  No panic is raised.
EvalNext ==
  \/ \E h \in 1..MaxPollTasks : handleChatMessage(h, {GoodAuto(VDur(2, "h"), c) : c \in Predicates})
  \/ \E h \in 1..MaxPollTasks : CmdDispatch(h)
  \/ \E h \in 1..MaxPollTasks : CmdStart(h)
  \/ \E h \in 1..MaxPollTasks : CmdRespond(h)
  \/ \E h \in 1..MaxPollTasks : CmdReply(h)
  \/ \E k \in 1..MaxPollTasks : WorkerStart(k)
  \/ \E k \in 1..MaxPollTasks : WorkerTimers(k)
  \/ \E k \in 1..MaxPollTasks : WorkerAlreadyExpired(k)
  \/ \E k \in 1..MaxPollTasks : WorkerExpiryTimer(k)
  \/ \E k \in 1..MaxPollTasks : WorkerTick(k)
  \/ \E k \in 1..MaxPollTasks : WorkerEval(k)
  \/ \E k \in 1..MaxPollTasks : WorkerDecide(k)
  \/ \E k \in 1..MaxPollTasks : WorkerPlaced(k) /\ (worker'[k].pc = "mailExecuted" => Len(pollers) < MaxPollers)
  \/ \E k \in 1..MaxPollTasks : WorkerMailed(k)
  \/ \E k \in 1..MaxPollTasks : WorkerDeferred(k)
  \/ PollerNext
  \/ HubUnregister
  \/ ReadPumpPanic
  \/ AdvanceTime

SpecEval == Init /\ [][EvalNext]_vars

\* The monitors with the user cancelling them by id.  The workers and the
\* handlers run to their ends; the pollers of the accepted orders are not
\* scheduled.
CancelInputs == {GoodAuto(VDur(2, "h"), PredRsi)} \cup {CancelOrder(id) : id \in {0, 300}}

CancelSpecNext ==
  \/ WorkerNext
  \/ CommandNext(CancelInputs)
  \/ \E h \in Tasks : CmdCancelSignal(h)
  \/ \E h \in Tasks : CmdCancelRemove(h)
  \/ AdvanceTime

SpecCancel == Init /\ [][CancelSpecNext]_vars

\* The status pollers, with one monitor that places orders and ends by
\* expiry, and the handler's reply (the broker accepts no more orders than
\* pollers run).  No panic is raised.
PollInputs == {GoodAuto(VDur(2, "h"), PredRsi)}

PollSpecNext ==
  \/ \E h \in 1..MaxPollTasks : handleChatMessage(h, PollInputs)
  \/ \E h \in 1..MaxPollTasks : CmdDispatch(h)
  \/ \E h \in 1..MaxPollTasks : CmdStart(h)
  \/ \E h \in 1..MaxPollTasks : CmdRespond(h)
  \/ \E h \in 1..MaxPollTasks : CmdReply(h)
  \/ \E k \in 1..MaxOrders : WorkerStart(k)
  \/ \E k \in 1..MaxOrders : WorkerTimers(k)
  \/ \E k \in 1..MaxOrders : WorkerAlreadyExpired(k)
  \/ \E k \in 1..MaxOrders : WorkerExpiryTimer(k)
  \/ \E k \in 1..MaxOrders : WorkerTick(k)
  \/ \E k \in 1..MaxOrders : WorkerEval(k)
  \/ \E k \in 1..MaxOrders : WorkerDecide(k)
  \/ \E k \in 1..MaxOrders : WorkerPlaced(k) /\ (worker'[k].pc = "mailExecuted" => Len(pollers) < MaxPollers)
  \/ \E k \in 1..MaxOrders : WorkerMailed(k)
  \/ \E k \in 1..MaxOrders : WorkerDeferred(k)
  \/ PollerNext
  \/ HubUnregister
  \/ ReadPumpPanic
  \/ AdvanceTime

SpecPoll == Init /\ [][PollSpecNext]_vars

\* Two commands start two monitors; the worker of the first gets to run,
\* up to its expiry and cleanup, and so does the poller of its order (the
\* broker accepts no more orders than pollers run).  The worker of the second
\* monitor is not scheduled, no panic is raised, and the handlers' replies
\* are left out.
PairNext ==
  \/ \E h \in Tasks : handleChatMessage(h, PollInputs)
  \/ \E h \in Tasks : CmdDispatch(h)
  \/ \E h \in Tasks : CmdStart(h)
  \/ \E k \in 1..MaxPollTasks : WorkerStart(k)
  \/ \E k \in 1..MaxPollTasks : WorkerTimers(k)
  \/ \E k \in 1..MaxPollTasks : WorkerAlreadyExpired(k)
  \/ \E k \in 1..MaxPollTasks : WorkerExpiryTimer(k)
  \/ \E k \in 1..MaxPollTasks : WorkerTick(k)
  \/ \E k \in 1..MaxPollTasks : WorkerEval(k)
  \/ \E k \in 1..MaxPollTasks : WorkerDecide(k)
  \/ \E k \in 1..MaxPollTasks : WorkerPlaced(k) /\ (worker'[k].pc = "mailExecuted" => Len(pollers) < MaxPollers)
  \/ \E k \in 1..MaxPollTasks : WorkerMailed(k)
  \/ \E k \in 1..MaxPollTasks : WorkerDeferred(k)
  \/ PollerNext
  \/ HubUnregister
  \/ ReadPumpPanic
  \/ AdvanceTime

SpecPair == Init /\ [][PairNext]_vars

\* The outbound channel: commands, the write task and the end of the
\* connection; the worker of the first monitor gets to run, up to its expiry
\* and cleanup.  The worker of the second monitor and the pollers are not
\* scheduled, no panic is raised, and the handlers' replies are left out.
TransportNext ==
  \/ WritePumpReceive
  \/ WritePumpWrite
  \/ WritePumpClosed
  \/ WritePumpPingFailed
  \/ ReadPumpExit
  \/ HubUnregister
  \/ ReadPumpPanic

OutboundNext ==
  \/ \E h \in Tasks : handleChatMessage(h, PollInputs)
  \/ \E h \in Tasks : ReadPumpSend(h)
  \/ \E h \in Tasks : CmdDispatch(h)
  \/ \E h \in Tasks : CmdStart(h)
  \/ \E k \in 1..MaxPollTasks : WorkerStart(k)
  \/ \E k \in 1..MaxPollTasks : WorkerTimers(k)
  \/ \E k \in 1..MaxPollTasks : WorkerAlreadyExpired(k)
  \/ \E k \in 1..MaxPollTasks : WorkerExpiryTimer(k)
  \/ \E k \in 1..MaxPollTasks : WorkerTick(k)
  \/ \E k \in 1..MaxPollTasks : WorkerEval(k)
  \/ \E k \in 1..MaxPollTasks : WorkerDecide(k)
  \/ \E k \in 1..MaxPollTasks : WorkerPlaced(k)
  \/ \E k \in 1..MaxPollTasks : WorkerMailed(k)
  \/ \E k \in 1..MaxPollTasks : WorkerDeferred(k)
  \/ TransportNext
  \/ AdvanceTime

SpecOutbound == InitOutbound /\ [][OutboundNext]_vars

\* One monitor started with validity "forever", with the handler's reply and
\* the poller of its order (the broker accepts no more orders than pollers
\* run).  No panic is raised.  The expiry of this monitor lies beyond every
\* instant the clock reaches, so its worker never finds it expired at the
\* start.
ForeverNext ==
  \/ \E h \in 1..MaxPollTasks : handleChatMessage(h, {GoodAuto(VForever, PredRsi)})
  \/ \E h \in 1..MaxPollTasks : CmdDispatch(h)
  \/ \E h \in 1..MaxPollTasks : CmdStart(h)
  \/ \E h \in 1..MaxPollTasks : CmdRespond(h)
  \/ \E h \in 1..MaxPollTasks : CmdReply(h)
  \/ \E k \in 1..MaxPollTasks : WorkerStart(k)
  \/ \E k \in 1..MaxPollTasks : WorkerTimers(k)
  \/ \E k \in 1..MaxPollTasks : WorkerExpiryTimer(k)
  \/ \E k \in 1..MaxPollTasks : WorkerTick(k)
  \/ \E k \in 1..MaxPollTasks : WorkerEval(k)
  \/ \E k \in 1..MaxPollTasks : WorkerDecide(k)
  \/ \E k \in 1..MaxPollTasks : WorkerPlaced(k) /\ (worker'[k].pc = "mailExecuted" => Len(pollers) < MaxPollers)
  \/ \E k \in 1..MaxPollTasks : WorkerMailed(k)
  \/ \E k \in 1..MaxPollTasks : WorkerDeferred(k)
  \/ PollerNext
  \/ HubUnregister
  \/ ReadPumpPanic
  \/ AdvanceTime

SpecForever == Init /\ [][ForeverNext]_vars

\* The end of a session that has one monitor: the first command starts a
\* monitor whose worker runs up to its expiry and cleanup, next to the
\* poller of its order (the broker accepts no more orders than pollers run),
\* and the connection can end at any point.  The handler sends its reply.
\* No panic is raised.
ClosingNext ==
  \/ handleChatMessage(1, PollInputs)
  \/ CmdDispatch(1)
  \/ CmdStart(1)
  \/ CmdRespond(1)
  \/ CmdReply(1)
  \/ WorkerStart(1)
  \/ WorkerTimers(1)
  \/ WorkerAlreadyExpired(1)
  \/ WorkerExpiryTimer(1)
  \/ WorkerTick(1)
  \/ WorkerEval(1)
  \/ WorkerDecide(1)
  \/ WorkerPlaced(1) /\ (worker'[1].pc = "mailExecuted" => Len(pollers) < MaxPollers)
  \/ WorkerMailed(1)
  \/ WorkerDeferred(1)
  \/ PollerNext
  \/ TransportNext
  \/ AdvanceTime

SpecClosing == InitOutbound /\ [][ClosingNext]_vars

\* The same session with a peer that sends pings, which the read task
\* answers on the outbound channel; the handler's reply is left out.
TeardownNext ==
  \/ handleChatMessage(1, PollInputs)
  \/ CmdDispatch(1)
  \/ CmdStart(1)
  \/ WorkerStart(1)
  \/ WorkerTimers(1)
  \/ WorkerAlreadyExpired(1)
  \/ WorkerExpiryTimer(1)
  \/ WorkerTick(1)
  \/ WorkerEval(1)
  \/ WorkerDecide(1)
  \/ WorkerPlaced(1) /\ (worker'[1].pc = "mailExecuted" => Len(pollers) < MaxPollers)
  \/ WorkerMailed(1)
  \/ WorkerDeferred(1)
  \/ PollerNext
  \/ TransportNext
  \/ AdvanceTime
  \/ ReadPumpPing
  \/ ReadPumpPong

SpecTeardown == InitOutbound /\ [][TeardownNext]_vars

\* Every task that can take a step is run: the command handler, the worker
\* (a select with a ready case takes one), the pollers (whose sleeps end), a
\* read task with room for its pong, the
\* write task, the hub, and the read task once the connection is closed.
TeardownFairness ==
  /\ WF_vars(CmdDispatch(1))
  /\ WF_vars(CmdStart(1))
  /\ WF_vars(WorkerStart(1))
  /\ WF_vars(WorkerTimers(1))
  /\ WF_vars(WorkerAlreadyExpired(1))
  /\ WF_vars(WorkerExpiryTimer(1))
  /\ WF_vars(WorkerTick(1))
  /\ WF_vars(WorkerEval(1))
  /\ WF_vars(WorkerDecide(1))
  /\ WF_vars(WorkerPlaced(1))
  /\ WF_vars(WorkerMailed(1))
  /\ WF_vars(WorkerDeferred(1))
  /\ WF_vars(PollerNext)
  /\ WF_vars(ReadPumpPong)
  /\ WF_vars(WritePumpReceive)
  /\ WF_vars(WritePumpWrite)
  /\ WF_vars(WritePumpClosed)
  /\ WF_vars(ReadPumpConnClosed)
  /\ WF_vars(HubUnregister)

FairTeardown == SpecTeardown /\ TeardownFairness

\* The session without monitors: the read task answers pings and hands
\* commands and chat text to their tasks, next to the write task and the hub.
SessionInputs == {OtherCommand, ChatText}

SessionNext ==
  \/ \E h \in Tasks : handleChatMessage(h, SessionInputs)
  \/ \E h \in Tasks : ReadPumpSend(h)
  \/ \E h \in Tasks : CmdDispatch(h)
  \/ \E h \in Tasks : CmdRespond(h)
  \/ \E h \in Tasks : CmdReply(h)
  \/ \E h \in Tasks : processAIResponse(h)
  \/ \E h \in Tasks : AIReply(h)
  \/ ReadPumpPing
  \/ ReadPumpPong
  \/ TransportNext

SpecSession == InitOutbound /\ [][SessionNext]_vars

\* The scheduler runs every task that can take a step: a sender with room in
\* the channel (or on the closed channel), the write task with a frame or
\* the close to receive, the hub with a client to unregister, and the read
\* task once the connection is closed.  Frames from the peer and write
\* errors are up to the environment.
SessionFairness ==
  /\ \A h \in Tasks : WF_vars(ReadPumpSend(h))
  /\ \A h \in Tasks : WF_vars(CmdDispatch(h))
  /\ \A h \in Tasks : WF_vars(CmdRespond(h))
  /\ \A h \in Tasks : WF_vars(CmdReply(h))
  /\ \A h \in Tasks : WF_vars(processAIResponse(h))
  /\ \A h \in Tasks : WF_vars(AIReply(h))
  /\ WF_vars(ReadPumpPong)
  /\ WF_vars(WritePumpReceive)
  /\ WF_vars(WritePumpWrite)
  /\ WF_vars(WritePumpClosed)
  /\ WF_vars(ReadPumpConnClosed)
  /\ WF_vars(HubUnregister)

FairSession == SpecSession /\ SessionFairness

\* The session with a hub that also broadcasts and sends to the user.
SpecHub ==
  InitOutbound /\ [][SessionNext \/ HubBroadcast \/ HubBroadcastDelete \/ HubSendToUser]_vars

\* The gateway operations on every response shape.
SpecGateway == Init /\ [][CallQuote \/ CallPlace \/ CallStatus \/ CallHistory]_vars

\* Auto commands with one argument the dispatcher refuses, next to four it
\* accepts: one with its product in lower case and its interval and validity
\* in upper case, one whose product is written with the dotless i, and one
\* whose validity is five microseconds written with the Greek capital Mu.  The handlers run to their ends and so does the
\* worker of the first monitor; the worker of a second monitor and the
\* pollers are not scheduled, and no panic is raised.
BadAuto(product, qty, interval, validity) ==
  Input("auto", "SELL", product, qty, interval, validity, PredRsi)

DispatchInputs ==
  {GoodAuto(VDur(2, "h"), PredRsi),
   BadAuto(<<"m", "i", "s">>, QNum(10), VDur(5, "M"), VDur(2, "H")),
   BadAuto(<<"m", "U+0131", "s">>, QNum(10), I5m, VDur(2, "h")),
   BadAuto(<<"X", "Y", "Z">>, QNum(10), I5m, VDur(2, "h")),
   BadAuto(MIS, QNum(0), I5m, VDur(2, "h")),
   BadAuto(MIS, [numeric |-> FALSE, n |-> 0], I15m, VDur(2, "h")),
   BadAuto(CNC, QNum(10), VDur(1, "m"), VDur(2, "h")),
   BadAuto(CNC, QNum(10), I1h, VBad),
   BadAuto(CNC, QNum(10), I1h, VDur(30, "d")),
   BadAuto(CNC, QNum(10), I1h, VDur(721, "h")),
   BadAuto(CNC, QNum(10), I1h, VDur(5, "ΜS"))}

DispatchNext ==
  \/ CommandNext(DispatchInputs)
  \/ \E k \in 1..MaxPollTasks : WorkerStart(k)
  \/ \E k \in 1..MaxPollTasks : WorkerTimers(k)
  \/ \E k \in 1..MaxPollTasks : WorkerAlreadyExpired(k)
  \/ \E k \in 1..MaxPollTasks : WorkerExpiryTimer(k)
  \/ \E k \in 1..MaxPollTasks : WorkerTick(k)
  \/ \E k \in 1..MaxPollTasks : WorkerEval(k)
  \/ \E k \in 1..MaxPollTasks : WorkerDecide(k)
  \/ \E k \in 1..MaxPollTasks : WorkerPlaced(k)
  \/ \E k \in 1..MaxPollTasks : WorkerMailed(k)
  \/ \E k \in 1..MaxPollTasks : WorkerDeferred(k)
  \/ AdvanceTime

SpecDispatch == Init /\ [][DispatchNext]_vars

\* =============================================================== claims
CleanupExits == {"cancel", "timer", "tickExpiry", "panic"}
ExpiryExits == {"timer", "tickExpiry"}
FatalErrors == {"InsufficientData", "MissingPeriod", "SyntaxError", "NonBooleanPredicate"}

Registered(k) ==
  /\ orders[k].id \in DOMAIN autoOrders
  /\ autoOrders[orders[k].id] = k

\* C1: every cancel channel is closed at most once, and the channel of a
\* monitor that removeAutoOrder has removed has been closed exactly once,
\* whichever of the racing removeAutoOrder calls did the removal.
C1_CloseExactlyOnce ==
  \A k \in 1..Len(closes) : closes[k] = IF cleanupOnce[k] THEN 1 ELSE 0

\* Two workers whose records share an id have both run their cleanup, and
\* the registered record's channel was closed by it.
C1_Witness ==
  \E k1 \in Workers, k2 \in Workers :
    /\ k1 < k2
    /\ orders[k1].id = orders[k2].id
    /\ worker[k1].pc = "done" /\ worker[k1].exit \in CleanupExits
    /\ worker[k2].pc = "done" /\ worker[k2].exit \in CleanupExits
    /\ cleanupOnce[k2] /\ closes[k2] = 1

\* C2: once the hub has closed the session's outbound channel, no worker
\* starts a history fetch and no worker issues a placeSmartOrder call.
C2_NoActivityAfterDisconnect ==
  [][sendClosed =>
       \A k \in Workers :
         /\ placed'[k] = placed[k]
         /\ worker'[k].pc = "eval" => worker[k].pc = "eval"]_vars

\* C3: a worker whose cancel channel has been closed issues no further
\* placeSmartOrder call.
C3_NoPlaceAfterCancelSignal ==
  [][\A k \in Workers :
       (worker[k].cancelChan # 0 /\ closes[worker[k].cancelChan] > 0)
         => placed'[k] = placed[k]]_vars

\* C4: the worker spawned by the panic recovery finds its monitor still in
\* the registry with an open cancel channel.
C4_RestartResumesMonitoring ==
  \A k \in Workers :
    (worker[k].pc = "start" /\ worker[k].panics > 0)
      => /\ Registered(k)
         /\ orders[k].id \in DOMAIN cancellation
         /\ closes[cancellation[orders[k].id]] = 0

\* C5: a worker whose evaluation returned InsufficientData, MissingPeriod,
\* SyntaxError or NonBooleanPredicate stops; it does not go back to ticking.
C5_FatalErrorStopsMonitor ==
  [][\A k \in Workers :
       (worker[k].pc = "evaluated" /\ worker[k].err \in FatalErrors)
         => worker'[k].pc \in {"evaluated", "deferred", "done"}]_vars

\* C6: no task of the session raises an unrecovered panic.
C6_NoUnrecoveredPanic == ~crashed

\* C7: a monitor whose worker has exited with no restart pending is not in
\* the registry.
C7_ExitedMonitorUnregistered ==
  \A k \in Workers : worker[k].pc = "done" => ~Registered(k)

\* C8: StartAutoOrderMonitoring registers its record under an id that is
\* not in the registry at that moment.
C8_FreshId ==
  [][Len(orders') > Len(orders)
       => orders'[Len(orders')].id \notin DOMAIN autoOrders]_vars

\* The states of C9: at most one EXPIRED message per monitor; a worker that
\* took an expiry branch is in its deferred cleanup or has returned, with
\* exactly one EXPIRED message sent; and once it has returned, the monitor
\* is not in the registry.
C9_Inv ==
  \A k \in Workers :
    /\ emitted[k]["EXPIRED"] <= 1
    /\ worker[k].exit \in ExpiryExits
         => /\ worker[k].pc \in {"deferred", "done"}
            /\ emitted[k]["EXPIRED"] = 1
    /\ (worker[k].exit \in ExpiryExits /\ worker[k].pc = "done") => ~Registered(k)

\* The steps of C9: no step issues a placeSmartOrder call for a worker that
\* has taken an expiry branch by its end, and the deferred cleanup of such a
\* worker leaves the monitor's id out of the registry.
C9_Step ==
  \A k \in Workers :
    /\ worker'[k].exit \in ExpiryExits => placed'[k] = placed[k]
    /\ (worker[k].exit \in ExpiryExits /\ worker[k].pc = "deferred" /\ worker'[k].pc = "done")
         => orders[k].id \notin DOMAIN autoOrders'

\* C9: a worker that takes an expiry branch (timer, or a tick that sees
\* now > expiresAt) emits exactly one EXPIRED message, issues no
\* placeSmartOrder call on or after that step, exits, and its deferred
\* cleanup leaves the monitor's id out of the registry.
C9_ExpiryStopsMonitor == [](C9_Inv) /\ [][C9_Step]_vars

\* A monitor placed an order on a tick and later left through its expiry
\* timer, with its id gone from the registry.
C9_Witness ==
  \E k \in Workers :
    /\ worker[k].pc = "done" /\ worker[k].exit = "timer"
    /\ placed[k] = 1
    /\ emitted[k]["EXPIRED"] = 1
    /\ orders[k].id \notin DOMAIN autoOrders

\* C10: every registered record has expiresAt > createdAt.
C10_ExpiresAfterCreated ==
  \A k \in 1..Len(orders) : orders[k].expiresAt > orders[k].createdAt

\* C11: a monitor is in the registry exactly when its status is "running";
\* a monitor that has been removed carries a terminal status.
TerminalStatuses == {"executed", "cancelled", "expired", "failed"}

C11_RegisteredIffRunning ==
  \A k \in Workers :
    /\ Registered(k) => orders[k].status = "running"
    /\ (worker[k].pc = "done" /\ worker[k].exit \in CleanupExits /\ ~Registered(k))
         => orders[k].status \in TerminalStatuses

\* C12: once /cancel_order has signalled a monitor on which no tick has
\* matched, no placeSmartOrder call is issued for it, its worker emits the
\* CANCELLED message once, and the handler's removal leaves the id out of
\* the registry.
C12_Inv ==
  \A k \in Workers :
    /\ emitted[k]["CANCELLED"] <= 1
    /\ (worker[k].pc \in {"deferred", "done"} /\ worker[k].exit = "cancel")
         => emitted[k]["CANCELLED"] = 1

C12_Step ==
  /\ \A k \in Workers :
       (Len(signals[k]) > 0 /\ ~signals[k][1]) => placed'[k] = 0
  /\ \A h \in Tasks :
       (tasks[h].pc = "remove" /\ tasks'[h].pc = "respond")
         => tasks[h].input.id \notin DOMAIN autoOrders'

C12_CancelBeforeFire == [](C12_Inv) /\ [][C12_Step]_vars

\* The arguments of an auto command that the claim calls invalid.
InvalidArguments(input) ==
  {a \in {"InvalidProduct", "InvalidQuantity", "UnsupportedInterval", "InvalidValidity"} :
     \/ a = "InvalidProduct" /\ ToUpper(input.product) \notin Products
     \/ a = "InvalidQuantity" /\ ~(input.qty.numeric /\ input.qty.n >= 1)
     \/ a = "UnsupportedInterval" /\ ToLower(input.interval) \notin {I5m, I15m, I1h}
     \/ a = "InvalidValidity"
          /\ input.validity.kind # "forever"
          /\ \/ ~ParseDuration(ToLower(input.validity)).ok
             \/ ParseDuration(ToLower(input.validity)).d > 30 * 24 * 3600}

\* C13: an auto command with an invalid product, quantity, interval or
\* validity leaves the registry as it is, spawns no worker, and its handler
\* goes on to send a reply that names an invalid argument.
C13_InvalidAutoRejected ==
  [][\A h \in Tasks :
       /\ (/\ tasks[h].pc = "typing"
           /\ tasks[h].input.kind = "auto"
           /\ InvalidArguments(tasks[h].input) # {}
           /\ tasks'[h] # tasks[h])
            => /\ tasks'[h].pc = "respond"
               /\ tasks'[h].reply \in InvalidArguments(tasks[h].input)
               /\ <<orders, autoOrders, cancellation, worker>>'
                    = <<orders, autoOrders, cancellation, worker>>
       /\ (/\ tasks[h].pc \in {"respond", "reply"}
           /\ tasks[h].input.kind = "auto"
           /\ InvalidArguments(tasks[h].input) # {}
           /\ tasks'[h] # tasks[h])
            => /\ tasks'[h].pc = (IF tasks[h].pc = "respond" THEN "reply" ELSE "done")
               /\ Len(orders') = Len(orders)]_vars

\* C14: removing a registered monitor leaves its id in neither map, and a
\* second removeAutoOrder of the same id changes nothing and closes nothing;
\* every step that fires a record's cleanup latch takes its id out of both
\* maps.
C14_Inv ==
  \A id \in DOMAIN autoOrders :
    LET once == removeAutoOrder(Registry, id)
        twice == removeAutoOrder(once, id)
    IN /\ id \notin DOMAIN once.autoOrders
       /\ id \notin DOMAIN once.cancellation
       /\ twice = once

C14_Step ==
  \A k \in Workers :
    (~cleanupOnce[k] /\ cleanupOnce'[k])
      => /\ orders[k].id \notin DOMAIN autoOrders'
         /\ orders[k].id \notin DOMAIN cancellation'

C14_RegistryRoundTrip == [](C14_Inv) /\ [][C14_Step]_vars

\* A monitor was added, removed by its worker's deferred cleanup, and then
\* removeAutoOrder was called for it a second time by the panic recovery.
C14_Witness ==
  \E k \in Workers :
    /\ emitted[k]["NO_RESTART"] = 1
    /\ worker[k].pc = "done"
    /\ cleanupOnce[k] /\ closes[k] = 1
    /\ orders[k].id \notin DOMAIN autoOrders
    /\ orders[k].id \notin DOMAIN cancellation

PollersOf(k) == {p \in 1..Len(pollers) : pollers[p].order = k}

\* C15: when placeSmartOrder fails, the worker emits one error message and
\* then one e-mail, spawns no poller, leaves the registry and the monitor's
\* status as they are, and goes back to its select with its ticker running.
C15_FailedPlacementContinues ==
  [][\A k \in Workers :
       /\ (/\ worker[k].pc = "placing"
           /\ worker'[k] # worker[k]
           /\ emitted'[k]["EXECUTED"] = emitted[k]["EXECUTED"])
            => /\ emitted'[k]["FAILED"] = emitted[k]["FAILED"] + 1
               /\ emitted'[k]["MAIL_FAILED"] = emitted[k]["MAIL_FAILED"]
               /\ worker'[k].pc = "mailFailed"
       /\ (worker[k].pc = "mailFailed" /\ worker'[k] # worker[k])
            => /\ emitted'[k]["MAIL_FAILED"] = emitted[k]["MAIL_FAILED"] + 1
               /\ emitted'[k]["FAILED"] = emitted[k]["FAILED"]
               /\ worker'[k].pc = "select"
       /\ (/\ worker[k].pc \in {"placing", "mailFailed"}
           /\ worker'[k].pc \in {"mailFailed", "select"}
           /\ worker'[k] # worker[k])
            => /\ pollers' = pollers
               /\ worker'[k].nextTick = worker[k].nextTick
               /\ <<autoOrders, cancellation>>' = <<autoOrders, cancellation>>
               /\ orders'[k].status = "running"]_vars

\* After a failed placement the monitor is registered and its worker is in
\* the evaluation of a later tick.
C15_Witness ==
  \E k \in Workers :
    /\ emitted[k]["FAILED"] = 1
    /\ emitted[k]["MAIL_FAILED"] = 1
    /\ Registered(k)
    /\ orders[k].status = "running"
    /\ worker[k].pc = "eval"

\* C16: when placeSmartOrder succeeds, the worker emits one EXECUTED
\* message, spawns one poller for the order, leaves the registry and the
\* monitor's status as they are and goes back to its select; and a later
\* evaluation that comes out true places again.
C16_Inv ==
  \A k \in Workers :
    /\ Cardinality(PollersOf(k)) + (IF worker[k].pc = "mailExecuted" THEN 1 ELSE 0)
         = emitted[k]["EXECUTED"]
    /\ emitted[k]["EXECUTED"] <= placed[k]

C16_Step ==
  \A k \in Workers :
    /\ (/\ worker[k].pc = "placing"
        /\ worker'[k] # worker[k]
        /\ emitted'[k]["FAILED"] = emitted[k]["FAILED"])
         => /\ emitted'[k]["EXECUTED"] = emitted[k]["EXECUTED"] + 1
            /\ pollers' = pollers
            /\ worker'[k].pc = "mailExecuted"
            /\ worker'[k].nextTick = worker[k].nextTick
            /\ <<autoOrders, cancellation>>' = <<autoOrders, cancellation>>
            /\ orders'[k].status = "running"
    /\ (worker[k].pc = "mailExecuted" /\ worker'[k] # worker[k])
         => /\ emitted'[k]["EXECUTED"] = emitted[k]["EXECUTED"]
            /\ Len(pollers') = Len(pollers) + 1
            /\ pollers'[Len(pollers')].order = k
            /\ worker'[k].pc = "select"
            /\ worker'[k].nextTick = worker[k].nextTick
            /\ <<autoOrders, cancellation>>' = <<autoOrders, cancellation>>
            /\ orders'[k].status = "running"
    /\ (/\ worker[k].pc = "evaluated"
        /\ worker[k].err = "" /\ worker[k].isMet
        /\ emitted[k]["EXECUTED"] >= 1
        /\ worker'[k] # worker[k])
         => /\ worker'[k].pc = "placing"
            /\ placed'[k] = placed[k] + 1

C16_ContinuesAfterPlacement == [](C16_Inv) /\ [][C16_Step]_vars

\* A registered monitor whose first order was accepted is placing a second
\* order on a later tick.
C16_Witness ==
  \E k \in Workers :
    /\ placed[k] = 2
    /\ emitted[k]["EXECUTED"] = 1
    /\ Cardinality(PollersOf(k)) = 1
    /\ Registered(k)
    /\ worker[k].pc = "placing"

\* emitted after exactly one call of each kind in ks for record k.
EmittedOnce(k, ks) ==
  [emitted EXCEPT ![k] = [x \in Kinds |-> IF x \in ks THEN @[x] + 1 ELSE @[x]]]

\* The states of C17: a poller makes at most MaxRetries attempts and is
\* past its loop only after the last; the messages and e-mails sent for a
\* monitor with one poller are those of that poller's place: one failure
\* message once it has read "rejected" or "cancelled" and sent it, one
\* e-mail once it has returned after that, at most one unresolved message
\* and e-mail, and never both a failure and an unresolved message.
C17_Inv ==
  \A p \in 1..Len(pollers) :
    LET k == pollers[p].order
        alone == PollersOf(k) = {p}
        failed == pollers[p].status \in {"rejected", "cancelled"}
    IN /\ pollers[p].i <= MaxRetries
       /\ pollers[p].pc \in {"final", "unresolved", "mailUnresolved"}
            => pollers[p].i = MaxRetries /\ pollers[p].status = ""
       /\ pollers[p].pc = "sleep" => pollers[p].i < MaxRetries
       /\ pollers[p].pc = "mailFailure" => failed
       /\ alone =>
            /\ emitted[k]["ORDER_FAILURE"]
                 = (IF failed /\ pollers[p].pc \in {"mailFailure", "done"} THEN 1 ELSE 0)
            /\ emitted[k]["MAIL_ORDER_FAILURE"]
                 = (IF failed /\ pollers[p].pc = "done" THEN 1 ELSE 0)
            /\ emitted[k]["UNRESOLVED"] \in {0, 1}
            /\ emitted[k]["UNRESOLVED"] = 1
                 <=> (pollers[p].pc = "mailUnresolved"
                        \/ (pollers[p].pc = "done" /\ emitted[k]["MAIL_UNRESOLVED"] = 1))
            /\ emitted[k]["MAIL_UNRESOLVED"] \in {0, 1}
            /\ emitted[k]["MAIL_UNRESOLVED"] = 1 => pollers[p].pc = "done"
            /\ emitted[k]["ORDER_FAILURE"] + emitted[k]["UNRESOLVED"] <= 1

\* The steps of C17, one clause for each place of a poller past its fetch.
C17_Step ==
  \A p \in 1..Len(pollers) :
    LET k == pollers[p].order
        st == pollers[p].status
    IN /\ (pollers[p].pc = "fetched" /\ pollers'[p] # pollers[p])
            => IF st = "complete"
               THEN pollers'[p].pc = "done" /\ emitted' = emitted
               ELSE IF st \in {"rejected", "cancelled"}
               THEN /\ pollers'[p].pc = "mailFailure"
                    /\ emitted' = EmittedOnce(k, {"ORDER_FAILURE"})
               ELSE /\ pollers'[p].pc = IF pollers[p].i = MaxRetries THEN "final" ELSE "sleep"
                    /\ emitted' = emitted
       /\ (pollers[p].pc = "mailFailure" /\ pollers'[p] # pollers[p])
            => /\ pollers'[p].pc = "done"
               /\ emitted' = EmittedOnce(k, {"MAIL_ORDER_FAILURE"})
       /\ (pollers[p].pc = "final" /\ pollers'[p] # pollers[p])
            => /\ pollers'[p].pc = IF pollers[p].id \in DOMAIN autoOrders
                                   THEN "unresolved" ELSE "done"
               /\ emitted' = emitted
       /\ (pollers[p].pc = "unresolved" /\ pollers'[p] # pollers[p])
            => /\ pollers'[p].pc = "mailUnresolved"
               /\ emitted' = EmittedOnce(k, {"UNRESOLVED"})
       /\ (pollers[p].pc = "mailUnresolved" /\ pollers'[p] # pollers[p])
            => /\ pollers'[p].pc = "done"
               /\ emitted' = EmittedOnce(k, {"MAIL_UNRESOLVED"})
       /\ pollers[p].pc = "done" => pollers'[p] = pollers[p]

\* C17: an attempt that reads "complete" ends the poller with nothing
\* emitted; one that reads "rejected" or "cancelled" sends exactly one
\* failure message, then exactly one e-mail, and then the poller ends; any
\* other answer (an error, a non-terminal or unknown status) emits nothing
\* and leads to the next attempt, or after the fifth to the end of the loop,
\* where a poller whose monitor is still registered sends exactly one
\* unresolved message, then one e-mail, and exits, and a poller whose
\* monitor is gone exits with nothing emitted.
C17_PollOutcomes == [](C17_Inv) /\ [][C17_Step]_vars

\* A poller has used all five attempts without a terminal answer and, with
\* its monitor still registered, has sent the unresolved message and then
\* the e-mail, and has returned.
C17_Witness ==
  \E p \in 1..Len(pollers) :
    /\ pollers[p].pc = "done"
    /\ pollers[p].i = MaxRetries
    /\ pollers[p].status = ""
    /\ emitted[pollers[p].order]["UNRESOLVED"] = 1
    /\ emitted[pollers[p].order]["MAIL_UNRESOLVED"] = 1
    /\ emitted[pollers[p].order]["ORDER_FAILURE"] = 0
    /\ pollers[p].id \in DOMAIN autoOrders

\* C18: a worker whose cancel signal has been raised one or more times
\* emits the CANCELLED message exactly once and exits, and a signal raised
\* after the worker has observed one changes nothing for the worker.
C18_Inv ==
  \A k \in Workers :
    /\ emitted[k]["CANCELLED"] <= 1
    /\ (Len(signals[k]) >= 1 /\ worker[k].pc = "done") => emitted[k]["CANCELLED"] = 1

C18_Step ==
  \A k \in Workers :
    (Len(signals'[k]) > Len(signals[k]) /\ worker[k].pc \in {"signalled", "deferred", "done"})
      => worker'[k] = worker[k] /\ emitted'[k] = emitted[k]

C18_CancelObservedOnce == [](C18_Inv) /\ [][C18_Step]_vars

\* C20: a worker at its select whose cancel channel is ready together with
\* a tick or the expiry timer takes the cancel branch, and neither starts
\* that tick's evaluation nor takes an expiry exit.
C20_CancelTakesPrecedence ==
  [][\A k \in Workers :
       (/\ worker[k].pc = "select"
        /\ closes[worker[k].cancelChan] > 0
        /\ (now >= worker[k].nextTick \/ now >= worker[k].timerAt)
        /\ worker'[k] # worker[k])
         => /\ worker'[k].exit = "cancel"
            /\ emitted'[k]["CANCELLED"] = emitted[k]["CANCELLED"] + 1
            /\ emitted'[k]["EXPIRED"] = emitted[k]["EXPIRED"]]_vars

\* What the gateway reports as an endpoint or routing error.
EndpointErrors == {"EndpointNotFound", "HtmlPage"}

\* C19: whichever of the four operations is called, an HTML page sent with
\* an HTML Content-Type is reported as an endpoint error, whatever its
\* status code, and never as a decode error or a generic API failure.
C19_HtmlIsEndpointError ==
  (gateway.op # "" /\ gateway.resp.html /\ gateway.resp.body = "page")
    => gateway.err \in EndpointErrors

\* C21: a monitor starts at most one placeSmartOrder call per tick and has at
\* most one in flight: a call starts only out of the evaluation of the tick
\* the worker is in, an evaluation only out of a tick taken at the select,
\* and a tick is taken only by a worker that is back at its select, so the
\* fetch, evaluation and placement of one tick are over before the next.
InTick(k) == worker[k].pc \in {"eval", "evaluated", "placing", "mailExecuted", "mailFailed"}

C21_OnePlacementPerTick ==
  [][\A k \in Workers :
       /\ placed'[k] \in {placed[k], placed[k] + 1}
       /\ placed'[k] = placed[k] + 1
            => worker[k].pc = "evaluated" /\ worker'[k].pc = "placing"
       /\ (worker'[k].pc = "placing" /\ worker[k].pc # "placing")
            => worker[k].pc = "evaluated" /\ placed'[k] = placed[k] + 1
       /\ (worker'[k].pc = "evaluated" /\ worker[k].pc # "evaluated")
            => worker[k].pc = "eval"
       /\ (worker'[k].pc = "eval" /\ worker[k].pc # "eval")
            => worker[k].pc = "select" /\ now >= worker[k].nextTick
       /\ (InTick(k) /\ worker'[k] # worker[k])
            => worker'[k].nextTick = worker[k].nextTick \/ worker'[k].pc \in {"deferred", "start"}]_vars

\* A monitor is back at its select after two ticks that each placed one
\* order, the first refused and the second accepted.
C21_Witness ==
  \E k \in Workers :
    /\ placed[k] = 2
    /\ emitted[k]["FAILED"] = 1 /\ emitted[k]["EXECUTED"] = 1
    /\ worker[k].pc = "select"
    /\ Registered(k)

\* C22: a tick whose history fetch failed or returned no candles has an
\* evaluation error and no match; the worker then places nothing, emits
\* nothing, leaves the registry and the monitor's status as they are, and
\* goes back to its select with the ticker running.
NoData(k) == worker[k].pc = "evaluated" /\ worker[k].fetch \in {"failed", "empty"}

C22_Inv ==
  \A k \in Workers : NoData(k) => worker[k].err # "" /\ ~worker[k].isMet

C22_Step ==
  \A k \in Workers :
    (NoData(k) /\ worker'[k] # worker[k])
      => /\ worker'[k].pc = "select"
         /\ worker'[k].nextTick = worker[k].nextTick
         /\ placed'[k] = placed[k]
         /\ emitted'[k] = emitted[k]
         /\ pollers' = pollers
         /\ <<autoOrders, cancellation, closes>>' = <<autoOrders, cancellation, closes>>
         /\ orders'[k].status = "running"

C22_NoDataTickIsSilent == [](C22_Inv) /\ [][C22_Step]_vars

\* A registered monitor is in its second tick, whose fetch returned no
\* candles, after a first tick that placed and emitted nothing.
C22_Witness ==
  \E k \in Workers :
    /\ NoData(k) /\ worker[k].fetch = "empty"
    /\ worker[k].nextTick = orders[k].createdAt + 3 * checkDelay(orders[k].interval)
    /\ placed[k] = 0
    /\ emitted[k] = NoEmits
    /\ Registered(k)

\* C24: a poller whose parent monitor is not in the registry when an attempt
\* begins, or when the attempts are used up, exits there: it does not go on
\* to a fetch and nothing is emitted.
C24_PollerStopsWithoutParent ==
  [][\A p \in 1..Len(pollers) :
       (/\ pollers[p].pc \in {"sleep", "final"}
        /\ ~Registered(pollers[p].order)
        /\ pollers'[p] # pollers[p])
         => /\ pollers'[p].pc = "done"
            /\ pollers'[p].i = pollers[p].i
            /\ emitted' = emitted]_vars

\* Everything the outbound channel carries or has carried: the frames
\* written, then the frame the write task has received and not yet written,
\* then the frames in the buffer.
Channel == wire \o message \o send

Pos(f) == IF \E i \in 1..Len(Channel) : Channel[i] = f
          THEN CHOOSE i \in 1..Len(Channel) : Channel[i] = f
          ELSE 0

Echo(h) == Frame("read", h, "ECHO", 1)
TypingOn(h) == Frame("cmd", h, "TYPING_ON", 1)
WorkerFrames(k) == SelectSeq(Channel, LAMBDA f : f.from = "worker" /\ f.of = k)

\* The states of C25: where the channel carries or has carried the
\* typing-on indicator of a command, it carries the echo before it, unless
\* the write task lost the echo in a failed write.
C25_Inv ==
  \A h \in Tasks :
    Pos(TypingOn(h)) # 0
      => \/ Pos(Echo(h)) # 0 /\ Pos(Echo(h)) < Pos(TypingOn(h))
         \/ Pos(Echo(h)) = 0 /\ writePump = "exited"

\* The steps of C25: the channel grows at its tail only (or loses the frame
\* of a failed write), and the step that starts a monitor comes after the
\* command's typing-on indicator and before any frame of the new worker.
C25_Step ==
  /\ \/ \E i \in 0..Len(Channel') : SubSeq(Channel', 1, i) = Channel
     \/ /\ message # << >> /\ message' = << >>
        /\ writePump' = "exited" /\ wire' = wire /\ send' = send
  /\ \A h \in Tasks :
       (tasks[h].pc = "initial" /\ tasks'[h].pc = "respond")
         => /\ Pos(TypingOn(h)) # 0 \/ writePump = "exited"
            /\ Len(orders') = Len(orders) + 1
            /\ WorkerFrames(Len(orders')) = << >>

\* C25: on the outbound channel the typing-on indicator of a command comes
\* after the echo of that command (which is missing only if the write task
\* took it and failed to write it), also while the write task holds a frame
\* it has received and not yet written; the channel is a queue, so what is
\* sent later comes later; and when a command starts its monitor, the
\* command's typing-on indicator has been sent and no frame of that
\* monitor's worker has.
C25_EchoTypingWorker == [](C25_Inv) /\ [][C25_Step]_vars

\* The transport has been handed the echo of the first command, then its
\* typing-on indicator, then a message of the worker of the monitor it
\* started.
C25_Witness ==
  /\ Len(wire) >= 3
  /\ wire[1] = Echo(1)
  /\ wire[2] = TypingOn(1)
  /\ wire[3].from = "worker" /\ wire[3].of = 1 /\ wire[3].n = 1
  /\ tasks[1].pc = "respond" /\ tasks[1].reply = "Started"
  /\ tasks[2].pc = "idle"

\* Frames the worker of record k has sent, counted over all its emits.
WorkerSent(k) == Produced(k, "EXPIRED")

\* The states of C26: the write task holds at most one frame, and the
\* frames of each worker, written, held and buffered, have increasing
\* numbers.
C26_Inv ==
  /\ Len(message) <= 1
  /\ \A k \in Workers :
       \A i, j \in 1..Len(WorkerFrames(k)) :
         i < j => WorkerFrames(k)[i].n < WorkerFrames(k)[j].n

\* The steps of C26: the buffer grows at its tail and shrinks at its head,
\* by the write task taking one frame; the frame it holds is the one it
\* writes; and an emit on the open channel appends the worker's next frame.
C26_Step ==
  /\ send' # send
       => \/ /\ Len(send') > Len(send)
             /\ SubSeq(send', 1, Len(send)) = send
             /\ wire' = wire /\ message' = message
          \/ /\ send' = Tail(send)
             /\ writePump = "running"
             /\ message = << >> /\ message' = <<Head(send)>>
             /\ wire' = wire
  /\ (message # << >> /\ message' # message)
       => /\ message' = << >> /\ send' = send
          /\ \/ wire' = Append(wire, message[1])
             \/ wire' = wire /\ writePump' = "exited"
  /\ wire' # wire
       => wire' = Append(wire, message[1]) /\ message' = << >> /\ send' = send
  /\ \A k \in Workers :
       /\ ((\E x \in FrameKinds : emitted'[k][x] # emitted[k][x]) /\ ~sendClosed)
            => /\ Len(send') = Len(send) + 1
               /\ send'[Len(send')].of = k
               /\ send'[Len(send')].from = "worker"
                    => send'[Len(send')].n = WorkerSent(k) + 1
       /\ (\E x \in Kinds \ FrameKinds : emitted'[k][x] # emitted[k][x])
            => send' = send

\* C26: the frames of one worker are carried in the order the worker
\* produced them.  Every emit on the open channel puts one frame at the
\* tail of the buffer (an e-mail puts none); only the write task takes
\* frames out, always the head and one at a time; and what it writes next is
\* the frame it has taken, or nothing when the write fails.
C26_WorkerFramesInOrder == [](C26_Inv) /\ [][C26_Step]_vars

\* The transport has been handed two messages of one worker, in the order
\* the worker produced them, with a frame of another task between them.
C26_Witness ==
  \E k \in Workers :
    \E i, j \in 1..Len(wire) :
      /\ i + 1 < j
      /\ wire[i].from = "worker" /\ wire[i].of = k /\ wire[i].n = 1
      /\ wire[j].from = "worker" /\ wire[j].of = k /\ wire[j].n = 2

\* C27: the worker of a monitor started with validity "forever" never takes
\* an expiry exit and never emits the EXPIRED message.
C27_ForeverNeverExpires ==
  \A k \in Workers :
    orders[k].expiresAt = ForeverAt
      => /\ emitted[k]["EXPIRED"] = 0
         /\ worker[k].exit \notin ExpiryExits

\* A task of the session that is in a send on the outbound channel which
\* cannot complete.
ReadTaskBlocked == readPump \in {"sending", "pong"} /\ ~CanSend(1)

HandlerBlocked(h) ==
  tasks[h].pc \in {"typing", "respond", "reply", "ai", "aireply"} /\ ~CanSend(1)

\* C28: once the write task has exited, the hub eventually closes the
\* outbound channel (or the process has ended), and from then on no read
\* task or handler is in a send that cannot complete.
C28_TornDownAfterWritePumpExit ==
  (writePump = "exited")
    ~> (crashed \/ (/\ sendClosed
                    /\ ~ReadTaskBlocked
                    /\ \A h \in Tasks : ~HandlerBlocked(h)))

\* Frames of the tasks of record k that the channel carries or has carried.
Carried(k) == Len(SelectSeq(Channel, LAMBDA f : f.of = k /\ f.from \in {"worker", "poller"}))

\* C29: an emit of a worker or poller after the hub has closed the outbound
\* channel enqueues nothing and ends nothing: the process does not crash,
\* the worker is not in a panic and goes on to its e-mail and back to its
\* select (or, on the expiry exits, on to its cleanup or its return), and a
\* poller that emitted goes on to its e-mail and its return as it does after
\* an emit on the open channel.
C29_EmitOnClosedIsNoOp ==
  [][\A k \in Workers :
       (sendClosed /\ emitted'[k] # emitted[k])
         => /\ send' = send
            /\ wire' = wire
            /\ message' = message
            /\ crashed' = crashed
            /\ worker'[k].panicked = worker[k].panicked
            /\ worker'[k].panics = worker[k].panics
            /\ worker'[k] # worker[k]
                 => \/ worker[k].pc = "placing" /\ worker'[k].pc \in {"mailExecuted", "mailFailed"}
                    \/ worker[k].pc \in {"mailExecuted", "mailFailed"} /\ worker'[k].pc = "select"
                    \/ worker'[k].pc = "deferred" /\ worker'[k].exit \in ExpiryExits
                    \/ /\ worker[k].pc = "alreadyExpired"
                       /\ worker'[k] = Finished(worker[k], "alreadyExpired")
            /\ \A p \in PollersOf(k) :
                 pollers'[p] # pollers[p]
                   => \/ pollers[p].pc = "fetched" /\ pollers'[p].pc = "mailFailure"
                      \/ pollers[p].pc = "unresolved" /\ pollers'[p].pc = "mailUnresolved"
                      \/ /\ pollers[p].pc \in {"mailFailure", "mailUnresolved"}
                         /\ pollers'[p].pc = "done"]_vars

\* After the hub closed the channel, with the write task still running (so
\* it dropped no frame), the worker of the first monitor has emitted for an
\* accepted order and is back in its select, the order's poller has sent its
\* failure notice and its e-mail and has returned, and the channel carries
\* neither frame.
C29_Witness ==
  /\ sendClosed
  /\ writePump = "running"
  /\ Len(orders) >= 1 /\ Len(pollers) >= 1
  /\ emitted[1]["EXECUTED"] = 1
  /\ Produced(1, "ORDER_FAILURE") = 1
  /\ emitted[1]["MAIL_ORDER_FAILURE"] + emitted[1]["MAIL_UNRESOLVED"] = 1
  /\ pollers[1].order = 1 /\ pollers[1].pc = "done"
  /\ worker[1].pc = "select"
  /\ Carried(1) = 0
  /\ ~crashed

\* C23: a poller makes at most MaxRetries fetches, and every poller that
\* was started and gets to run ends (unless the process has ended).
C23_PollerTerminates ==
  /\ [](\A p \in Pollers : pollers[p].i <= MaxRetries)
  /\ \A p \in 1..MaxPollers :
       (p \in Pollers) ~> (crashed \/ (p \in Pollers /\ pollers[p].pc = "done"))

\* C30: between critical sections the monitor map and the cancel-signal map
\* have the same keys, and every step that touches either map is one
\* critical section on both: the registration of a new record and its
\* channel under one id, or the removal of one id from both.
C30_Inv == DOMAIN autoOrders = DOMAIN cancellation

C30_Step ==
  \/ autoOrders' = autoOrders /\ cancellation' = cancellation
  \/ /\ Len(orders') = Len(orders) + 1
     /\ autoOrders' = MapPut(autoOrders, orders'[Len(orders')].id, Len(orders'))
     /\ cancellation' = MapPut(cancellation, orders'[Len(orders')].id, Len(orders'))
  \/ \E id \in DOMAIN autoOrders :
       /\ autoOrders' = MapDel(autoOrders, id)
       /\ cancellation' = MapDel(cancellation, id)

C30_RegistryMapsAgree == [](C30_Inv) /\ [][C30_Step]_vars

\* Two monitors with different ids were registered and the first has been
\* removed: both maps hold the second id and nothing else.
C30_Witness ==
  /\ Len(orders) = 2
  /\ orders[1].id # orders[2].id
  /\ cleanupOnce[1] /\ ~cleanupOnce[2]
  /\ DOMAIN autoOrders = {orders[2].id}
  /\ DOMAIN cancellation = {orders[2].id}
  /\ closes[1] = 1 /\ closes[2] = 0

====
